---- MODULE Spec2Model ----
(***************************************************************************)
(* A model of the big-phi search of cyphi/pyphi: concept(), the persistent *)
(* concept cache, constellation(), constellation_distance(), _evaluate_cut *)
(* and the memoized big_mip() with its pool of cut-evaluation workers.     *)
(*                                                                         *)
(* Numbers.  Every phi is an integer count of EPSILON units, so that       *)
(* EPSILON = 1 and a phi of 0.5 is SingleNodePhi units.                    *)
(*                                                                         *)
(* Abstraction of the numerics.  A mechanism that the cut leaves without   *)
(* an input or an output has small phi 0; otherwise its small phi is the   *)
(* entry of phiTable for its size, and phiTable is any table over PhiVals. *)
(* The two MICE of a concept are stood for by the connections they are     *)
(* computed from, and the ground distance between concepts is the discrete *)
(* metric on them.                                                         *)
(***************************************************************************)
EXTENDS Integers, FiniteSets, Sequences, TLC

VARIABLES
    cm,            \* the network's connectivity matrix, as a set of edges <<i, j>>
    options,       \* [SINGLE_NODES_WITH_SELFLOOPS_HAVE_PHI, PARALLEL_CUT_EVALUATION]
    db,            \* persistent store: raw MarblSet key -> concept
    conceptMemo,   \* memory.cache of _concept: canonical MarblSet key -> concept
    bigMemo,       \* memory.cache of _big_mip: hash(subsystem) -> BigMip
    phiTable,      \* the TPM, as far as it matters: mechanism size -> small phi
    pc,            \* position of the calling thread
    call,          \* the top-level call in progress or last finished
    ret,           \* what the last finished top-level call returned
    calls,         \* number of top-level calls that were not served by the big_mip memo
    local,         \* locals of the call in progress
    workers,       \* per worker: its task and its position in _evaluate_cut
    cacheLog,      \* who touched the persistent caches during this call
    hist,          \* per subsystem: what big_mip first returned, and at which call
    probe,         \* the value objects last built and what was asked of them
    subsystems,    \* the Subsystem objects built so far, each with its caches
    answer,        \* the last call on a Subsystem object and what it returned
    steps          \* the number of calls on Subsystem objects so far

\* The state of the big-phi search.
computeVars == <<cm, options, db, conceptMemo, bigMemo, phiTable, pc, call,
                 ret, calls, local, workers, cacheLog, hist>>

\* The state of the value objects (models/) exercised on their own.
modelVars == <<probe>>

\* The Subsystem objects of pyphi/subsystem.py.
subsystemVars == <<subsystems, answer, steps>>

\* What the big-phi search leaves alone.
restVars == <<modelVars, subsystemVars>>

vars == <<computeVars, restVars>>

-----------------------------------------------------------------------------
(* Bounds and program constants *)

NumNodes == 3
MaxPhi == 1
MaxCalls == 2
NumWorkers == 2
EPSILON == 1
SingleNodePhi == 500000
HashModulus == 8191
MaxConcepts == 2
NumParts == 3
MaxSteps == 3
MaxSubsystems == 2

Nodes == 0 .. (NumNodes - 1)
PhiVals == 0 .. MaxPhi
Workers == 1 .. NumWorkers

-----------------------------------------------------------------------------
(* Small helpers *)

SetMin(S) == CHOOSE x \in S : \A y \in S : x <= y

RECURSIVE NodeBits(_)
NodeBits(S) ==
    IF S = {} THEN 0
    ELSE LET x == CHOOSE y \in S : TRUE IN 2 ^ x + NodeBits(S \ {x})

RECURSIVE SortedSeq(_)
SortedSeq(S) ==
    IF S = {} THEN <<>>
    ELSE LET x == SetMin(S) IN <<x>> \o SortedSeq(S \ {x})

Range(s) == {s[i] : i \in DOMAIN s}

RECURSIVE SeqSum(_)
SeqSum(s) == IF s = <<>> THEN 0 ELSE Head(s) + SeqSum(Tail(s))

\* Lexicographic order of Python tuples of integers.
RECURSIVE TupleLess(_, _)
TupleLess(a, b) ==
    IF a = <<>> THEN b # <<>>
    ELSE IF b = <<>> THEN FALSE
    ELSE IF Head(a) # Head(b) THEN Head(a) < Head(b)
    ELSE TupleLess(Tail(a), Tail(b))

-----------------------------------------------------------------------------
(* utils.powerset and utils.bipartition *)

SubsetLess(A, B) ==
    \/ Cardinality(A) < Cardinality(B)
    \/ /\ Cardinality(A) = Cardinality(B)
       /\ TupleLess(SortedSeq(A), SortedSeq(B))

RECURSIVE SortSubsets(_)
SortSubsets(SS) ==
    IF SS = {} THEN <<>>
    ELSE LET A == CHOOSE X \in SS : \A Y \in SS \ {X} : SubsetLess(X, Y)
         IN <<A>> \o SortSubsets(SS \ {A})

\* chain(combinations(s, r) for r in 0..len(s)): by size, then lexicographic.
PowersetTable == [S \in SUBSET Nodes |-> SortSubsets(SUBSET S)]

powerset(S) == PowersetTable[S]

\* bin(i)[2:].zfill(size)[::-1]: position k holds bit k-1 of i.
Bitstring(i, size) == [k \in 1 .. size |-> (i \div (2 ^ (k - 1))) % 2]

\* A flip that leaves the first bit as it is.
_flip_but_first(bitstring) ==
    [k \in DOMAIN bitstring |->
        IF k = 1 THEN bitstring[k] ELSE 1 - bitstring[k]]

_flip(bitstring) == [k \in DOMAIN bitstring |-> 1 - bitstring[k]]

RECURSIVE BitstringFrom(_, _, _)
BitstringFrom(a, bitstring, k) ==
    IF k > Len(a) THEN <<>>
    ELSE (IF bitstring[k] = 1 THEN <<a[k]>> ELSE <<>>)
         \o BitstringFrom(a, bitstring, k + 1)

_bitstring_index(a, bitstring) == BitstringFrom(a, bitstring, 1)

\* The list of pairs the generator yields, in order, for a non-empty list a.
bipartition(a) ==
    [n \in 1 .. (2 ^ (Len(a) - 1)) |->
        LET bitstring == Bitstring(n - 1, Len(a))
        IN <<_bitstring_index(a, bitstring),
             _bitstring_index(a, _flip(bitstring))>>]

-----------------------------------------------------------------------------
(* Cuts and connectivity *)

\* Cut(severed, intact): the connections from severed to intact are removed.
Cut(severed, intact) == [severed |-> severed, intact |-> intact]

\* cut=None of concept() and constellation().
NoneCut == [severed |-> {-1}, intact |-> {-1}]

\* subsystem.null_cut: the cut that severs nothing.
null_cut(S) == Cut({}, S)

CutLess(c1, c2) ==
    \/ TupleLess(SortedSeq(c1.severed), SortedSeq(c2.severed))
    \/ /\ c1.severed = c2.severed
       /\ TupleLess(SortedSeq(c1.intact), SortedSeq(c2.intact))

\* Subsystem.__init__: cm[i, j] is zeroed where the cut severs i -> j.
apply_cut(E, cut) == {e \in E : ~(e[1] \in cut.severed /\ e[2] \in cut.intact)}

\* The connectivity of just the subsystem nodes.
subadjacency(E, S) == {e \in E : e[1] \in S /\ e[2] \in S}

Inputs(n, E) == {e[1] : e \in {x \in E : x[2] = n}}
Outputs(n, E) == {e[2] : e \in {x \in E : x[1] = n}}

\* Every node of nodes1 has a connection to some node of nodes2.
_all_connect_to_any(E, nodes1, nodes2) ==
    \A a \in nodes1 : Outputs(a, E) \cap nodes2 # {}

\* Every node of nodes2 has a connection from some node of nodes1.
_any_connect_to_all(E, nodes1, nodes2) ==
    \A b \in nodes2 : Inputs(b, E) \cap nodes1 # {}

RECURSIVE WeakReach(_, _)
WeakReach(R, E) ==
    LET next == R \cup {e[2] : e \in {x \in E : x[1] \in R}}
                  \cup {e[1] : e \in {x \in E : x[2] \in R}}
    IN IF next = R THEN R ELSE WeakReach(next, E)

\* scipy's connected_components(csr_matrix(cm)) with its default
\* connection='weak': the number of weakly connected components is 1.
OneComponent(S, E) ==
    S # {} /\ WeakReach({SetMin(S)}, subadjacency(E, S)) = S

RECURSIVE Reach(_, _)
Reach(R, E) ==
    LET next == R \cup {e[2] : e \in {x \in E : x[1] \in R}}
    IN IF next = R THEN R ELSE Reach(next, E)

StronglyConnected(S, E) ==
    \A n \in S : Reach({n}, subadjacency(E, S)) = S

-----------------------------------------------------------------------------
(* MarblSet fingerprints *)

\* The Markov blanket of a mechanism in a connectivity: the connections into
\* and out of its nodes, and the other connections into their children.
Blanket(M, E) ==
    LET children == UNION {Outputs(m, E) : m \in M}
    IN {e \in E : e[1] \in M \/ e[2] \in M \/ e[2] \in children}

Relabel(p, S) == {p[x] : x \in S}
RelabelEdges(p, E) == {<<p[e[1]], p[e[2]]>> : e \in E}

\* The fingerprint with its node labels: the mechanism, its blanket in the
\* subsystem the cut spans, and the cut.
Fingerprint(M, B, cut) == <<M, B, cut.severed, cut.intact>>

NodePermutations == Permutations(Nodes)

\* MarblSet(mechanism, cut, normalize=False): node labels are kept.
RawMarblSet(E, M, cut) ==
    Fingerprint(M, Blanket(M, subadjacency(E, cut.severed \cup cut.intact)), cut)

\* MarblSet(mechanism, cut): the normal form, the same for every relabelling
\* of the nodes ("not the mechanism itself"); it is given as the set of all
\* relabellings of the fingerprint, which two fingerprints share exactly
\* when one is a relabelling of the other.
MarblSet(E, M, cut) ==
    LET B == Blanket(M, subadjacency(E, cut.severed \cup cut.intact))
    IN {Fingerprint(Relabel(p, M), RelabelEdges(p, B),
                    Cut(Relabel(p, cut.severed), Relabel(p, cut.intact)))
        : p \in NodePermutations}

\* The blanket the mechanism is left with once the cut is applied.
CutBlanket(E, S, M, cut) == Blanket(M, apply_cut(subadjacency(E, S), cut))

-----------------------------------------------------------------------------
(* Concepts *)

\* Concept(mechanism, phi, cause, effect); the two MICE are stood for by the
\* cut blanket they are computed from.
Concept(M, phi, B) == [mechanism |-> M, phi |-> phi, mice |-> B, some |-> TRUE]

\* Python's None, where a concept is expected.
None == [mechanism |-> {}, phi |-> 0, mice |-> {}, some |-> FALSE]

\* subsystem.null_concept: the unconstrained point of concept space.
null_concept == Concept({}, 0, {})

\* A mechanism node without input from, or output to, the cut subsystem makes
\* the mechanism reducible whatever the TPM is.
Disconnected(E, S, M, cut) ==
    LET Ec == apply_cut(subadjacency(E, S), cut)
    IN ~(_all_connect_to_any(Ec, M, S) /\ _any_connect_to_all(Ec, S, M))

\* min(core_cause(mechanism, cut).phi, core_effect(mechanism, cut).phi)
SmallPhi(E, tbl, S, M, cut) ==
    IF Disconnected(E, S, M, cut) THEN 0
    ELSE tbl[Cardinality(M)]

\* The body of _concept.
_concept(E, tbl, S, M, cut) ==
    LET phi == SmallPhi(E, tbl, S, M, cut)
    IN IF phi < EPSILON THEN None
       ELSE Concept(M, phi, CutBlanket(E, S, M, cut))

\* Pre-checks that take "any subsystem node connects to all mechanism
\* nodes" to ask for one subsystem node that feeds the whole mechanism.
PreChecks_one_node_to_all(E, S, M) ==
    /\ M # {}
    /\ _all_connect_to_any(subadjacency(E, S), M, S)
    /\ \E a \in S : \A b \in M : <<a, b>> \in subadjacency(E, S)

\* The pre-checks of concept(): made on the subsystem, before the cut.
PreChecks(E, S, M) ==
    /\ M # {}
    /\ _all_connect_to_any(subadjacency(E, S), M, S)
    /\ _any_connect_to_all(subadjacency(E, S), S, M)

DefaultCutSevering(S, cut) == IF cut = NoneCut THEN Cut(S, S) ELSE cut

\* "if cut is None: cut = subsystem.null_cut"
DefaultCut(S, cut) == IF cut = NoneCut THEN null_cut(S) ELSE cut

dbGet(store, key) == IF key \in DOMAIN store THEN store[key] ELSE None

dbSet(store, key, value) == (key :> value) @@ store

FoundNever(cached_value) == FALSE

\* "if cached_value:" -- a stored None is as good as nothing stored.
Found(cached_value) == cached_value.some

\* The three look-ups of concept() once the keys are known: the persistent
\* cache under the raw key, the memo of _concept under the canonical key,
\* and the computation; the value is then stored under the raw key.
\* st = [db, memo, touched, trace, value, out] is threaded through the call:
\* the two caches, who touched them (who is "caller" or "task"), the cache
\* events of this call in order, the value returned and the constellation
\* being collected.
concept_lookup(st, who, raw, marblset, computed_value) ==
    LET cached_value == dbGet(st.db, raw)
        get_raw == [op |-> "db.get", key |-> raw, hit |-> cached_value.some]
    IN IF Found(cached_value)
       THEN [st EXCEPT !.value = cached_value,
                       !.touched = @ \cup {who},
                       !.trace = <<get_raw>>]
       ELSE
         LET hit == marblset \in DOMAIN st.memo
             value == IF hit THEN st.memo[marblset] ELSE computed_value
             get_memo == [op |-> "memo.get", key |-> marblset, hit |-> hit]
             computed == [op |-> "_concept", key |-> marblset, hit |-> FALSE]
             set_memo == [op |-> "memo.set", key |-> marblset, hit |-> FALSE]
             set_raw == [op |-> "db.set", key |-> raw, hit |-> FALSE]
         IN [db |-> dbSet(st.db, raw, value),
             memo |-> IF hit THEN st.memo ELSE (marblset :> value) @@ st.memo,
             touched |-> st.touched \cup {who},
             trace |-> IF hit THEN <<get_raw, get_memo, set_raw>>
                       ELSE <<get_raw, get_memo, computed, set_memo, set_raw>>,
             value |-> value,
             out |-> st.out]

\* concept() from the point where the cut is settled.
concept_under_cut(E, tbl, st, who, S, M, c) ==
    concept_lookup(st, who, RawMarblSet(E, M, c), MarblSet(E, M, c),
                   _concept(E, tbl, S, M, c))

\* What concept() does.
concept(E, tbl, st, who, S, M, cut) ==
    IF ~PreChecks(E, S, M) THEN [st EXCEPT !.value = None, !.trace = <<>>]
    ELSE concept_under_cut(E, tbl, st, who, S, M, DefaultCut(S, cut))

\* "return tuple(filter(None, concepts))": a concept is kept, None is not.
KeepConcept(one) ==
    IF one.value.some THEN [one EXCEPT !.out = Append(@, one.value)] ELSE one

RECURSIVE ConceptsOver(_, _, _, _, _, _, _)
ConceptsOver(E, tbl, st, who, S, mechanisms, cut) ==
    IF mechanisms = <<>> THEN st
    ELSE ConceptsOver(E, tbl,
                      KeepConcept(concept(E, tbl, st, who, S,
                                          Head(mechanisms), cut)),
                      who, S, Tail(mechanisms), cut)

\* constellation(subsystem, cut): the concepts of the powerset of the nodes,
\* non-concepts filtered out.  The result is in .out, the caches as left.
constellation(E, tbl, st, who, S, cut) ==
    ConceptsOver(E, tbl, [st EXCEPT !.out = <<>>], who, S, powerset(S), cut)

-----------------------------------------------------------------------------
(* Distances between constellations *)

\* The sum of the Hamming EMDs of the two cause and of the two effect
\* repertoires, taken as the discrete metric on the MICE.
concept_distance(c1, c2) == IF c1.mice = c2.mice THEN 0 ELSE 1

RECURSIVE WeightedSum(_)
WeightedSum(cs) ==
    IF cs = <<>> THEN 0
    ELSE Head(cs).phi * concept_distance(Head(cs), null_concept)
         + WeightedSum(Tail(cs))

OnlyIn(C1, C2) == SelectSeq(C1, LAMBDA c : c \notin Range(C2))

\* The simple distance without making C1 the bigger constellation.
_constellation_distance_simple_unswapped(C1, C2) ==
    WeightedSum(OnlyIn(C1, C2))

_constellation_distance_simple(C1, C2) ==
    LET big == IF Len(C2) > Len(C1) THEN C2 ELSE C1
        small == IF Len(C2) > Len(C1) THEN C1 ELSE C2
        destroyed == OnlyIn(big, small)
    IN WeightedSum(destroyed)

\* The two phi distributions over all_concepts, the residual assigned.
Histograms(C1, C2, unique_C1, unique_C2) ==
    LET shared_concepts == SelectSeq(C1, LAMBDA c : c \in Range(C2))
        all_concepts == shared_concepts \o unique_C1 \o unique_C2
                        \o <<null_concept>>
        n == Len(all_concepts)
        d1 == [i \in 1 .. n |-> IF all_concepts[i] \in Range(C1)
                                THEN all_concepts[i].phi ELSE 0]
        d2 == [i \in 1 .. n |-> IF all_concepts[i] \in Range(C2)
                                THEN all_concepts[i].phi ELSE 0]
        residual == SeqSum(d1) - SeqSum(d2)
    IN [all_concepts |-> all_concepts,
        d1 |-> IF residual < 0 THEN [d1 EXCEPT ![n] = residual] ELSE d1,
        d2 |-> IF residual > 0 THEN [d2 EXCEPT ![n] = residual] ELSE d2]

\* The EMD solver is defined on non-negative histograms of equal mass.
EmdDefined(h) ==
    /\ \A i \in DOMAIN h.d1 : h.d1[i] >= 0 /\ h.d2[i] >= 0
    /\ SeqSum(h.d1) = SeqSum(h.d2)

\* The mass of d at the points at distance 0 from point i.
MassAt(h, d, i) ==
    LET same == {j \in DOMAIN d :
                    concept_distance(h.all_concepts[i], h.all_concepts[j]) = 0}
        RECURSIVE Sum(_)
        Sum(J) == IF J = {} THEN 0
                  ELSE LET j == CHOOSE x \in J : TRUE IN d[j] + Sum(J \ {j})
    IN Sum(same)

\* utils.emd(d1, d2, distance_matrix) under a 0/1 ground distance: the mass
\* that has to leave the points where d1 exceeds d2.
emd(h) ==
    LET firsts == {i \in DOMAIN h.d1 :
                     \A j \in DOMAIN h.d1 :
                        concept_distance(h.all_concepts[i], h.all_concepts[j]) = 0
                            => i <= j}
        RECURSIVE Over(_)
        Over(I) ==
            IF I = {} THEN 0
            ELSE LET i == CHOOSE x \in I : TRUE
                     surplus == MassAt(h, h.d1, i) - MassAt(h, h.d2, i)
                 IN (IF surplus > 0 THEN surplus ELSE 0) + Over(I \ {i})
    IN Over(firsts)

\* constellation_distance(C1, C2, subsystem, cut); Undefined where the EMD
\* solver is handed a histogram it is not defined on.
Undefined == 0 - 1

constellation_distance(C1, C2) ==
    LET concepts_only_in_C1 == OnlyIn(C1, C2)
        concepts_only_in_C2 == OnlyIn(C2, C1)
    IN IF concepts_only_in_C1 = <<>> \/ concepts_only_in_C2 = <<>>
       THEN _constellation_distance_simple(C1, C2)
       ELSE LET h == Histograms(C1, C2, concepts_only_in_C1,
                                concepts_only_in_C2)
            IN IF EmdDefined(h) THEN emd(h) ELSE Undefined

-----------------------------------------------------------------------------
(* BigMips *)

BigMip(phi, cut, unpartitioned, partitioned, S) ==
    [phi |-> phi, cut |-> cut,
     unpartitioned_constellation |-> unpartitioned,
     partitioned_constellation |-> partitioned,
     subsystem |-> S]

\* A constellation of None (the single-node convention).
NoConstellation == <<None>>

_null_mip(S) == BigMip(0, null_cut(S), <<>>, <<>>, S)

_single_node_mip_without_option(opts, S) == _null_mip(S)

_single_node_mip(opts, S) ==
    IF opts.SINGLE_NODES_WITH_SELFLOOPS_HAVE_PHI
    THEN BigMip(SingleNodePhi, Cut(S, S), NoConstellation, NoConstellation, S)
    ELSE _null_mip(S)

order_by_without_size(mip) == <<mip.phi>> \o SortedSeq(mip.subsystem)

\* order_by: [phi, len(subsystem), subsystem.node_indices], compared as lists.
order_by(mip) ==
    <<mip.phi, Cardinality(mip.subsystem)>> \o SortedSeq(mip.subsystem)

MipLess(a, b) == TupleLess(order_by(a), order_by(b))

\* Python's min: the first element no later element is less than.
RECURSIVE MinFrom(_, _)
MinFrom(best, rest) ==
    IF rest = <<>> THEN best
    ELSE MinFrom(IF MipLess(Head(rest), best) THEN Head(rest) ELSE best,
                 Tail(rest))

PyMin(mips) == MinFrom(Head(mips), Tail(mips))

\* The reducibility test that ends _evaluate_cut.
Irreducible(mip) == mip.phi > EPSILON

\* hash(subsystem), for the subsystems of one network in one state.
HashSubsystem(S) == NodeBits(S)

\* The cuts of a partition, forward then backward.
forward_cut(partition) == Cut(Range(partition[1]), Range(partition[2]))
backward_cut(partition) == Cut(Range(partition[2]), Range(partition[1]))

\* bipartitions = utils.bipartition(subsystem.nodes)[1:]
bipartitions(S) == Tail(bipartition(SortedSeq(S)))

\* The edges of a set, in the order of Python tuples.
RECURSIVE SortEdges(_)
SortEdges(E) ==
    IF E = {} THEN <<>>
    ELSE LET e == CHOOSE x \in E : \A y \in E : x = y \/ TupleLess(x, y)
         IN <<e>> \o SortEdges(E \ {e})

-----------------------------------------------------------------------------
(* The value objects of models/subsystem.py *)

\* hash() of a tuple of integers: a mix of the hashes of its items, in the
\* width of the hash.
RECURSIVE TupleHash(_)
TupleHash(t) ==
    IF t = <<>> THEN 1
    ELSE (31 * TupleHash(SubSeq(t, 1, Len(t) - 1)) + t[Len(t)]) % HashModulus

\* A Subsystem as a value: its nodes and its cut; None where none is given.
SubsystemObject(S, cut) == [nodes |-> S, cut |-> cut, some |-> TRUE]
NoSubsystem == [nodes |-> {}, cut |-> NoneCut, some |-> FALSE]

\* Subsystem.__hash__: hash((network, node_indices, state, cut)), the network
\* and the state being the same for all; hash(None) for no subsystem.
SubsystemHash(sub) ==
    IF ~sub.some THEN 0
    ELSE TupleHash(<<NodeBits(sub.nodes), NodeBits(sub.cut.severed),
                     NodeBits(sub.cut.intact)>>)

\* hash(concept).
ConceptHash(c) ==
    TupleHash(<<c.phi, NodeBits(c.mechanism),
                TupleHash([i \in 1 .. Cardinality(c.mice) |->
                              LET e == SortEdges(c.mice)[i]
                              IN NumNodes * e[1] + e[2]])>>)

\* _concept_sort_key: (len(concept.mechanism), concept.mechanism)
_concept_sort_key(c) == <<Cardinality(c.mechanism)>> \o SortedSeq(c.mechanism)

\* sorted(concepts, key=...): stable, an item goes behind every item whose
\* key is not greater than its own.
RECURSIVE SortedByKey(_)
SortedByKey(concepts) ==
    IF concepts = <<>> THEN <<>>
    ELSE LET n == Len(concepts)
             x == concepts[n]
             before == SortedByKey(SubSeq(concepts, 1, n - 1))
             keep == {i \in DOMAIN before :
                        ~TupleLess(_concept_sort_key(x),
                                   _concept_sort_key(before[i]))}
             k == Cardinality(keep)
         IN SubSeq(before, 1, k) \o <<x>> \o SubSeq(before, k + 1, n - 1)

\* CauseEffectStructure(concepts, subsystem)
CauseEffectStructure(concepts, subsystem) ==
    [concepts |-> SortedByKey(concepts), subsystem |-> subsystem]

\* CauseEffectStructure.__eq__
CesEq(a, b) == a.concepts = b.concepts

\* CauseEffectStructure.__hash__: hash((self.concepts, self.subsystem))
CesHash(a) ==
    TupleHash(<<TupleHash([i \in DOMAIN a.concepts |->
                              ConceptHash(a.concepts[i])]),
                SubsystemHash(a.subsystem)>>)

-----------------------------------------------------------------------------
(* Cuts as matrices (models/cuts.py as the tests use it) *)

\* The entries of an n x n matrix.
Square(n) == (0 .. (n - 1)) \X (0 .. (n - 1))

\* np.ones((n, n)) as a connectivity matrix.
Ones(n) == Square(n)

\* A 0/1 matrix is the set of its 1 entries; its entry at (i, j).
Entry(m, i, j) == IF <<i, j>> \in m THEN 1 ELSE 0

Part(mechanism, purview) == [mechanism |-> mechanism, purview |-> purview]

\* KCut(direction, partition): the partition is a tuple of Parts.
KCut(direction, partition) == [direction |-> direction, partition |-> partition]

\* KCut.indices: the nodes of the partition.
KCutIndices(cut) ==
    UNION {cut.partition[p].mechanism : p \in DOMAIN cut.partition}

\* Direction.order(mechanism, purview): (purview, mechanism) for CAUSE,
\* (mechanism, purview) for EFFECT.
DirectionOrder(direction, mechanism, purview) ==
    IF direction = "CAUSE" THEN <<purview, mechanism>>
    ELSE <<mechanism, purview>>

kcut_matrix_ignoring_direction(cut, n) ==
    UNION {cut.partition[p].mechanism
              \X (KCutIndices(cut) \ cut.partition[p].purview) :
           p \in DOMAIN cut.partition}

\* KCut.cut_matrix(n): for each part, every connection from its source
\* nodes to the nodes of the cut outside its target nodes.
kcut_matrix(cut, n) ==
    UNION {LET o == DirectionOrder(cut.direction, cut.partition[p].mechanism,
                                   cut.partition[p].purview)
           IN o[1] \X (KCutIndices(cut) \ o[2]) :
           p \in DOMAIN cut.partition}

\* Cut.cut_matrix(n): the connections from from_nodes to to_nodes.
directed_cut_matrix(cut, n) == (cut.severed \X cut.intact) \cap Square(n)

\* cut.apply_cut(cm): cm * logical_not(cut_matrix), entry by entry.
apply_cut_matrix(E, marked, n) ==
    {e \in Square(n) :
        Entry(E, e[1], e[2]) * (1 - Entry(marked, e[1], e[2])) = 1}

\* The fixtures kcut_past and kcut_future of the tests, on 4 nodes.
fixture_partition ==
    <<Part({0, 2}, {0}), Part({}, {2}), Part({3}, {3})>>
kcut_past == KCut("CAUSE", fixture_partition)
kcut_future == KCut("EFFECT", fixture_partition)

\* What test_cut_matrix expects of the fixtures.
expected_cut_matrix_past ==
    {<<0, 3>>, <<2, 0>>, <<2, 2>>, <<2, 3>>, <<3, 0>>, <<3, 2>>}
expected_cut_matrix_future ==
    {<<0, 2>>, <<0, 3>>, <<2, 2>>, <<2, 3>>, <<3, 0>>, <<3, 2>>}

\* What test_apply_cut expects of the fixtures applied to np.ones((4, 4)).
expected_cut_cm_past ==
    {<<0, 0>>, <<0, 1>>, <<0, 2>>,
     <<1, 0>>, <<1, 1>>, <<1, 2>>, <<1, 3>>,
     <<2, 1>>,
     <<3, 1>>, <<3, 3>>}
expected_cut_cm_future ==
    {<<0, 0>>, <<0, 1>>,
     <<1, 0>>, <<1, 1>>, <<1, 2>>, <<1, 3>>,
     <<2, 0>>, <<2, 1>>,
     <<3, 1>>, <<3, 3>>}

-----------------------------------------------------------------------------
(* Repertoires (pyphi/subsystem.py, pyphi/node.py) *)

\* Arrays of probabilities.  An array has a value for every state of its
\* axes (the nodes whose dimension is 2); a value is vals[x] / den.
Bit == {0, 1}
StatesOf(X) == [X -> Bit]
Restrict(f, X) == [n \in X |-> f[n]]
Array(axes, vals, den) == [axes |-> axes, vals |-> vals, den |-> den]

RECURSIVE SumOver(_, _)
SumOver(f, D) ==
    IF D = {} THEN 0
    ELSE LET x == CHOOSE y \in D : TRUE IN f[x] + SumOver(f, D \ {x})

\* The sum of the entries of an array, as a count of 1 / den.
Total(a) == SumOver(a.vals, DOMAIN a.vals)

\* tpm.marginalize_out(nodes, tpm): the average over the states of the nodes.
marginalize_out(nodes, a) ==
    LET gone == a.axes \cap nodes
        left == a.axes \ nodes
    IN Array(left,
             [x \in StatesOf(left) |->
                 SumOver([c \in StatesOf(gone) |-> a.vals[x @@ c]],
                         StatesOf(gone))],
             a.den * 2 ^ Cardinality(gone))

\* tpm.condition_tpm(tpm, fixed_nodes, state): the entries at the state of
\* the fixed nodes.
condition_tpm(a, fixed_nodes, state) ==
    LET fixed == a.axes \cap fixed_nodes
        left == a.axes \ fixed_nodes
    IN Array(left,
             [x \in StatesOf(left) |-> a.vals[x @@ Restrict(state, fixed)]],
             a.den)

\* np.multiply with broadcasting over the axes either array lacks.
Multiply(a, b) ==
    LET axes == a.axes \cup b.axes
    IN Array(axes,
             [x \in StatesOf(axes) |->
                 a.vals[Restrict(x, a.axes)] * b.vals[Restrict(x, b.axes)]],
             a.den * b.den)

RECURSIVE Product(_)
Product(arrays) ==
    IF Len(arrays) = 1 THEN arrays[1]
    ELSE Multiply(Product(SubSeq(arrays, 1, Len(arrays) - 1)),
                  arrays[Len(arrays)])

\* distribution.normalize: divided by the sum, an all-zero array left as is.
normalize(a) == IF Total(a) = 0 THEN a ELSE Array(a.axes, a.vals, Total(a))

\* distribution.max_entropy_distribution(purview, tpm_size)
max_entropy_distribution(purview) ==
    Array(purview, [x \in StatesOf(purview) |-> 1], 2 ^ Cardinality(purview))

\* np.array([1.0])
ScalarOne == Array({}, [x \in StatesOf({}) |-> 1], 1)

RECURSIVE Gcd(_, _)
Gcd(a, b) == IF b = 0 THEN a ELSE Gcd(b, a % b)

\* The fraction n / d in lowest terms.
Fraction(n, d) == <<n \div Gcd(n, d), d \div Gcd(n, d)>>

\* The network's TPM in state-by-node form: the next state of node i after
\* the network state s.  In "gates" node i is the OR, the AND or the XOR
\* of the two nodes behind it; in "copy" it copies the node before it.
Behind(i, k) == (i + k) % NumNodes
NextState(name, i, s) ==
    LET a == s[Behind(i, 1)]
        b == s[Behind(i, 2)]
    IN IF name = "copy" THEN s[Behind(i, NumNodes - 1)]
       ELSE IF i % 3 = 0 THEN (IF a + b > 0 THEN 1 ELSE 0)
       ELSE IF i % 3 = 1 THEN a * b
       ELSE (a + b) % 2

\* The network's connectivity matrix.
NetworkCm(name) ==
    IF name = "copy" THEN {<<Behind(i, NumNodes - 1), i>> : i \in Nodes}
    ELSE {<<Behind(i, k), i>> : i \in Nodes, k \in {1, 2}}

\* A Subsystem as the repertoires see it: the network, the network's state,
\* the subsystem's nodes and the cut.
SubsystemOf(network, state, nodes, cut) ==
    [network |-> network, state |-> state, nodes |-> nodes, cut |-> cut]

\* Subsystem.__init__: self.cm, the network's connectivity with the cut
\* applied.
SubsystemCm(sub) == apply_cut(NetworkCm(sub.network), sub.cut)

\* Subsystem.__init__: self.tpm[..., i], the network's TPM conditioned on
\* the state of the external nodes, for node i being on.
SubsystemTpmOn(sub, i) ==
    Array(sub.nodes,
          [x \in StatesOf(sub.nodes) |->
              NextState(sub.network, i,
                        x @@ Restrict(sub.state, Nodes \ sub.nodes))],
          1)

\* Node.inputs
NodeInputs(sub, i) == Inputs(i, SubsystemCm(sub))

\* Node.__init__: tpm_on, the nodes of the subsystem that are no inputs of
\* the node averaged out.
NodeTpmOn(sub, i) ==
    marginalize_out(sub.nodes \ NodeInputs(sub, i), SubsystemTpmOn(sub, i))

\* Node.tpm[..., v]: tpm_off = 1 - tpm_on.
NodeTpm(on, v) ==
    IF v = 1 THEN on
    ELSE Array(on.axes, [x \in DOMAIN on.vals |-> on.den - on.vals[x]], on.den)

\* np.ones(repertoire_shape(purview, self.tpm_size))
OnesOver(purview) == Array(purview, [x \in StatesOf(purview) |-> 1], 1)

\* Subsystem._single_node_cause_repertoire
_single_node_cause_repertoire(sub, m, purview) ==
    marginalize_out(NodeInputs(sub, m) \ purview,
                    NodeTpm(NodeTpmOn(sub, m), sub.state[m]))

\* EffectOn conditioning on every input of the node, in the mechanism or not.
EffectOn_conditioned_on_all_inputs(sub, p, mechanism) ==
    marginalize_out(NodeInputs(sub, p) \ mechanism,
                    condition_tpm(NodeTpmOn(sub, p), NodeInputs(sub, p),
                                  sub.state))

\* Subsystem._single_node_effect_repertoire: the node's TPM conditioned on
\* the inputs in the mechanism, the other inputs averaged out, as a
\* distribution over the node's next state.
EffectOn(sub, p, mechanism) ==
    marginalize_out(NodeInputs(sub, p) \ mechanism,
                    condition_tpm(NodeTpmOn(sub, p),
                                  NodeInputs(sub, p) \cap mechanism,
                                  sub.state))

_single_node_effect_repertoire(sub, p, mechanism) ==
    LET on == EffectOn(sub, p, mechanism)
        scalar == CHOOSE x \in DOMAIN on.vals : TRUE
    IN Array({p},
             [x \in StatesOf({p}) |->
                 IF x[p] = 1 THEN on.vals[scalar]
                 ELSE on.den - on.vals[scalar]],
             on.den)

\* The caches of a Subsystem (cache.DictCache, cache.MICECache, and the
\* cache.method decorator).  A cache is a set of entries; an entry has the
\* key the decorator makes of the direction and the arguments, the value,
\* the Subsystem object through which it was written and the time of
\* writing.  A call in progress is the record o: the object, the cache
\* entries served so far, the single-node repertoires collected for a
\* product, and the value of the innermost call.
Key(direction, mechanism, purview) ==
    [direction |-> direction, mechanism |-> mechanism, purview |-> purview]

Hit(c, key) == {e \in c : e.key = key}

Serve(o, name, e) ==
    [o EXCEPT !.served = @ \cup {[cache |-> name, by |-> e.by, at |-> e.at]},
              !.value = e.value]

Store(o, name, key, who, now) ==
    [o EXCEPT !.obj[name] =
        @ \cup {[key |-> key, value |-> o.value, by |-> who, at |-> now]}]

SetValue(o, v) == [o EXCEPT !.value = v]
PushValue(o) == [o EXCEPT !.arrays = Append(@, o.value)]
NoArrays(o) == [o EXCEPT !.arrays = <<>>]

\* @cache.method("_single_node_repertoire_cache", Direction.CAUSE)
CachedSingleNodeCause(o, who, now, m, purview) ==
    IF Hit(o.obj._single_node_repertoire_cache,
           Key("CAUSE", {m}, purview)) # {}
    THEN Serve(o, "_single_node_repertoire_cache",
               CHOOSE e \in Hit(o.obj._single_node_repertoire_cache,
                                Key("CAUSE", {m}, purview)) : TRUE)
    ELSE Store(SetValue(o, _single_node_cause_repertoire(o.obj, m, purview)),
               "_single_node_repertoire_cache", Key("CAUSE", {m}, purview),
               who, now)

\* [self._single_node_cause_repertoire(m, purview) for m in mechanism]
RECURSIVE SingleNodeCauses(_, _, _, _, _)
SingleNodeCauses(o, who, now, mechanism, purview) ==
    IF mechanism = <<>> THEN o
    ELSE SingleNodeCauses(
            PushValue(CachedSingleNodeCause(o, who, now, Head(mechanism),
                                            purview)),
            who, now, Tail(mechanism), purview)

\* The end of Subsystem._cause_repertoire, without the normalization.
JointCause_unnormalized(o, purview) ==
    SetValue(o, Multiply(OnesOver(purview), Product(o.arrays)))

\* The end of Subsystem._cause_repertoire: the product of the single-node
\* repertoires over the purview's shape, normalized.
JointCause(o, purview) ==
    SetValue(o, normalize(Multiply(OnesOver(purview), Product(o.arrays))))

\* The body of Subsystem._cause_repertoire
ComputeCause(o, who, now, mechanism, purview) ==
    IF purview = {} THEN SetValue(o, ScalarOne)
    ELSE IF mechanism = {} THEN SetValue(o, max_entropy_distribution(purview))
    ELSE JointCause(SingleNodeCauses(NoArrays(o), who, now,
                                     SortedSeq(mechanism), purview),
                    purview)

\* @cache.method("_repertoire_cache", Direction.CAUSE): Subsystem.
\* cause_repertoire
CachedCause(o, who, now, mechanism, purview) ==
    IF Hit(o.obj._repertoire_cache, Key("CAUSE", mechanism, purview)) # {}
    THEN Serve(o, "_repertoire_cache",
               CHOOSE e \in Hit(o.obj._repertoire_cache,
                                Key("CAUSE", mechanism, purview)) : TRUE)
    ELSE Store(ComputeCause(o, who, now, mechanism, purview),
               "_repertoire_cache", Key("CAUSE", mechanism, purview),
               who, now)

\* @cache.method("_single_node_repertoire_cache", Direction.EFFECT)
CachedSingleNodeEffect(o, who, now, mechanism, p) ==
    IF Hit(o.obj._single_node_repertoire_cache,
           Key("EFFECT", mechanism, {p})) # {}
    THEN Serve(o, "_single_node_repertoire_cache",
               CHOOSE e \in Hit(o.obj._single_node_repertoire_cache,
                                Key("EFFECT", mechanism, {p})) : TRUE)
    ELSE Store(SetValue(o, _single_node_effect_repertoire(o.obj, p, mechanism)),
               "_single_node_repertoire_cache", Key("EFFECT", mechanism, {p}),
               who, now)

\* [self._single_node_effect_repertoire(mechanism, p) for p in purview]
RECURSIVE SingleNodeEffects(_, _, _, _, _)
SingleNodeEffects(o, who, now, mechanism, purview) ==
    IF purview = <<>> THEN o
    ELSE SingleNodeEffects(
            PushValue(CachedSingleNodeEffect(o, who, now, mechanism,
                                             Head(purview))),
            who, now, mechanism, Tail(purview))

\* The end of Subsystem._effect_repertoire_virtualized
JointEffect(o, purview) ==
    SetValue(o, Multiply(OnesOver(purview), Product(o.arrays)))

\* @cache.method("_repertoire_cache", Direction.EFFECT): Subsystem.
\* _effect_repertoire_virtualized
CachedEffectVirtualized(o, who, now, mechanism, purview) ==
    IF Hit(o.obj._repertoire_cache, Key("EFFECT", mechanism, purview)) # {}
    THEN Serve(o, "_repertoire_cache",
               CHOOSE e \in Hit(o.obj._repertoire_cache,
                                Key("EFFECT", mechanism, purview)) : TRUE)
    ELSE Store(JointEffect(SingleNodeEffects(NoArrays(o), who, now, mechanism,
                                             SortedSeq(purview)),
                           purview),
               "_repertoire_cache", Key("EFFECT", mechanism, purview),
               who, now)

\* The body of Subsystem._effect_repertoire_nonvirtualized.  Its numbers are
\* not modelled: the value stands for the repertoire of the mechanism in its
\* state over the purview with the given units left unvirtualized.
NonVirtualized(sub, mechanism, purview, nonvirtualized_units) ==
    [mechanism |-> mechanism, purview |-> purview,
     nonvirtualized_units |-> nonvirtualized_units,
     mechanism_state |-> Restrict(sub.state, mechanism),
     virtualized_units |-> (sub.nodes \ mechanism) \ nonvirtualized_units]

NonVirtualizedKey(mechanism, purview, nonvirtualized_units) ==
    [direction |-> "EFFECT", mechanism |-> mechanism, purview |-> purview,
     nonvirtualized_units |-> nonvirtualized_units]

\* @cache.method("_repertoire_nonvirtualized_cache", Direction.EFFECT)
CachedEffectNonVirtualized(o, who, now, mechanism, purview, units) ==
    IF Hit(o.obj._repertoire_nonvirtualized_cache,
           NonVirtualizedKey(mechanism, purview, units)) # {}
    THEN Serve(o, "_repertoire_nonvirtualized_cache",
               CHOOSE e \in Hit(o.obj._repertoire_nonvirtualized_cache,
                                NonVirtualizedKey(mechanism, purview, units)) :
                    TRUE)
    ELSE Store(SetValue(o, NonVirtualized(o.obj, mechanism, purview, units)),
               "_repertoire_nonvirtualized_cache",
               NonVirtualizedKey(mechanism, purview, units), who, now)

\* Subsystem.effect_repertoire
CachedEffect(o, who, now, mechanism, purview, nonvirtualized_units) ==
    IF purview = {} THEN SetValue(o, ScalarOne)
    ELSE IF nonvirtualized_units = {}
    THEN CachedEffectVirtualized(o, who, now, mechanism, purview)
    ELSE CachedEffectNonVirtualized(o, who, now, mechanism, purview,
                                    nonvirtualized_units)

\* Subsystem.repertoire: cause_repertoire drops the keyword arguments.
CachedRepertoire(o, who, now, direction, mechanism, purview, units) ==
    IF direction = "CAUSE" THEN CachedCause(o, who, now, mechanism, purview)
    ELSE CachedEffect(o, who, now, mechanism, purview, units)

\* Subsystem.is_cut
is_cut(sub) == sub.cut.severed # {}

\* Cut.splits_mechanism: the mechanism has nodes on both sides of the cut.
splits_mechanism(cut, mechanism) ==
    mechanism \cap cut.severed # {} /\ mechanism \cap cut.intact # {}

\* direction.order(mechanism, purview): the connections that matter to a
\* mechanism and a purview run from the purview to the mechanism for a
\* cause and from the mechanism to the purview for an effect.
Between(direction, mechanism, purview) ==
    IF direction = "CAUSE" THEN purview \X mechanism
    ELSE mechanism \X purview

\* irreducible_purviews: the purview is wholly connected to the mechanism,
\* every node the connections start from has one of them and every node
\* they end in has one of them.
WhollyConnected(E, direction, mechanism, purview) ==
    LET from == IF direction = "CAUSE" THEN purview ELSE mechanism
        to == IF direction = "CAUSE" THEN mechanism ELSE purview
    IN /\ mechanism # {} /\ purview # {}
       /\ \A a \in from : \E b \in to : <<a, b>> \in E
       /\ \A b \in to : \E a \in from : <<a, b>> \in E

\* Subsystem.potential_purviews
potential_purviews(sub, direction, mechanism) ==
    {purview \in SUBSET sub.nodes :
        WhollyConnected(SubsystemCm(sub), direction, mechanism, purview)}

\* A maximally irreducible cause or effect.  Its phi and repertoires are
\* not modelled: it is known by its direction, mechanism and purview.
Mice(direction, mechanism, purview) ==
    [direction |-> direction, mechanism |-> mechanism, purview |-> purview]

\* MICE.damaged_by_cut: the cut splits the mechanism or severs a connection
\* between the mechanism and the purview.
damaged_by_cut(mice, sub) ==
    \/ splits_mechanism(sub.cut, mice.mechanism)
    \/ \E e \in Between(mice.direction, mice.mechanism, mice.purview) :
          e[1] \in sub.cut.severed /\ e[2] \in sub.cut.intact

\* mice_cache=None
NoCache == [none |-> TRUE]

\* cache.MICECache(subsystem, parent_cache): the cache of a cut subsystem
\* starts with the entries of its uncut parent that the cut does not damage.
MICECache(sub, parent) ==
    IF parent = NoCache \/ ~is_cut(sub) \/ is_cut(parent) THEN {}
    ELSE {e \in parent._mice_cache : ~damaged_by_cut(e.value, sub)}

\* Subsystem.__init__, called without repertoire caches: parent is the
\* subsystem whose _mice_cache is passed as mice_cache, or NoCache.
Subsystem(sub, parent) ==
    [network |-> sub.network, state |-> sub.state, nodes |-> sub.nodes,
     cut |-> sub.cut,
     _mice_cache |-> MICECache(sub, parent),
     _single_node_repertoire_cache |-> {},
     _repertoire_cache |-> {},
     _repertoire_nonvirtualized_cache |-> {},
     cleared |-> 0]

\* Subsystem.apply_cut
SubsystemApplyCut(self, cut) ==
    Subsystem(SubsystemOf(self.network, self.state, self.nodes, cut), self)

\* Subsystem.clear_caches, at the given time.
clear_caches(self, now) ==
    [self EXCEPT !._single_node_repertoire_cache = {},
                 !._repertoire_cache = {},
                 !._mice_cache = {},
                 !.cleared = now]

\* find_mip for each purview: the unpartitioned repertoire is asked for.
RECURSIVE FindMips(_, _, _, _, _, _)
FindMips(o, who, now, direction, mechanism, purviews) ==
    IF purviews = {} THEN o
    ELSE LET purview == CHOOSE p \in purviews : TRUE
         IN FindMips(CachedRepertoire(o, who, now, direction, mechanism,
                                      purview, {}),
                     who, now, direction, mechanism, purviews \ {purview})

\* The purviews the result of find_mice can have: the mechanism's
\* potential purviews, or none (the null MICE).
MicePurviews(sub, direction, mechanism) ==
    potential_purviews(sub, direction, mechanism) \cup {{}}

\* @cache.method("_mice_cache"): Subsystem.find_mice, whose search ends on
\* the given purview.
CachedFindMice(o, who, now, direction, mechanism, purview) ==
    IF Hit(o.obj._mice_cache, Key(direction, mechanism, {})) # {}
    THEN Serve(o, "_mice_cache",
               CHOOSE e \in Hit(o.obj._mice_cache,
                                Key(direction, mechanism, {})) : TRUE)
    ELSE Store(SetValue(FindMips(o, who, now, direction, mechanism,
                                 potential_purviews(o.obj, direction,
                                                    mechanism)),
                        Mice(direction, mechanism, purview)),
               "_mice_cache", Key(direction, mechanism, {}), who, now)

\* A call on a Subsystem object.
CallOn(obj) == [obj |-> obj, served |-> {}, arrays |-> <<>>, value |-> None]

\* Subsystem.cause_repertoire and effect_repertoire of a subsystem just
\* built.
cause_repertoire(sub, mechanism, purview) ==
    CachedCause(CallOn(Subsystem(sub, NoCache)), 0, 0, mechanism, purview).value

effect_repertoire(sub, mechanism, purview) ==
    CachedEffect(CallOn(Subsystem(sub, NoCache)), 0, 0, mechanism, purview,
                 {}).value

-----------------------------------------------------------------------------
(* The networks and the calls of the model *)

\* A ring, a chain of self-connected nodes, and a network without symmetry.
Ring == {<<i, (i + 1) % NumNodes>> : i \in Nodes}
Chain == {<<i, i + 1>> : i \in 0 .. (NumNodes - 2)} \cup {<<i, i>> : i \in Nodes}
Skew == {<<0, 1>>, <<0, 2>>, <<1, 0>>, <<2, 1>>}

Networks == {Ring, Chain, Skew}

Caches(d, m) ==
    [db |-> d, memo |-> m, touched |-> {}, trace |-> <<>>, value |-> None,
     out |-> <<>>]

IdleWorker == [stage |-> "idle", task |-> 0, forward_mip |-> _null_mip({})]

NoLocal ==
    [unpartitioned_constellation |-> <<>>, tasks |-> <<>>, results |-> <<>>,
     dispatched |-> 0, evaluated |-> 0, seen |-> FALSE, prev |-> _null_mip({}),
     between |-> 0,
     distances |-> <<>>, undefined |-> FALSE,
     db0 |-> <<>>, memo0 |-> <<>>, trace |-> <<>>]

\* The search as it is after import: caches empty, nothing called.
InitCompute ==
    /\ cm \in Networks
    /\ options \in [SINGLE_NODES_WITH_SELFLOOPS_HAVE_PHI : BOOLEAN,
                    PARALLEL_CUT_EVALUATION : BOOLEAN]
    /\ db = <<>>
    /\ conceptMemo = <<>>
    /\ bigMemo = <<>>
    /\ phiTable \in [1 .. NumNodes -> PhiVals]
    /\ pc = "idle"
    /\ call = [kind |-> "none", subsystem |-> {}, mechanism |-> {}, cut |-> NoneCut]
    /\ ret = None
    /\ calls = 0
    /\ local = NoLocal
    /\ workers = [w \in Workers |-> IdleWorker]
    /\ cacheLog = {}
    /\ hist = <<>>

\* No value object built yet.
NoProbe == [op |-> "none"]

IdleModels == probe = NoProbe

NoAnswer == [op |-> "none"]

IdleSubsystems == subsystems = <<>> /\ answer = NoAnswer /\ steps = 0

Init == InitCompute /\ IdleModels /\ IdleSubsystems

CanCall == pc \in {"idle", "done"} /\ calls < MaxCalls

\* A top-level concept(subsystem, mechanism, cut).
ConceptCall(S, M, cut) ==
    /\ CanCall
    /\ \E r \in {concept(cm, phiTable, Caches(db, conceptMemo), "caller", S,
                         M, cut)} :
            /\ db' = r.db
            /\ conceptMemo' = r.memo
            /\ ret' = r.value
            /\ cacheLog' = r.touched
            /\ local' = [NoLocal EXCEPT !.trace = r.trace,
                                        !.db0 = db, !.memo0 = conceptMemo]
    /\ call' = [kind |-> "concept", subsystem |-> S, mechanism |-> M, cut |-> cut]
    /\ pc' = "done"
    /\ calls' = calls + 1
    /\ UNCHANGED <<cm, options, bigMemo, phiTable, workers, hist,
                   restVars>>

MemoizeNothing(memo, key, value) == memo

\* memory.cache: the value is kept under the cache key.
Memoize(memo, key, value) == (key :> value) @@ memo

\* What every big_mip call notes on entry: whether the subsystem was given
\* to big_mip before, and what came back then.
Entered(S) ==
    [NoLocal EXCEPT !.seen = S \in DOMAIN hist,
                    !.prev = IF S \in DOMAIN hist THEN hist[S].mip
                             ELSE _null_mip({}),
                    !.between = IF S \in DOMAIN hist THEN calls - hist[S].at
                                ELSE 0]

BigMipCall(S) ==
    [kind |-> "big_mip", subsystem |-> S, mechanism |-> {}, cut |-> NoneCut]

\* big_mip(subsystem) served from the memo of _big_mip.
BigMipHit(S) ==
    /\ pc \in {"idle", "done"}
    /\ HashSubsystem(S) \in DOMAIN bigMemo
    /\ call' = BigMipCall(S)
    /\ local' = Entered(S)
    /\ cacheLog' = {}
    /\ ret' = bigMemo[HashSubsystem(S)]
    /\ pc' = "done"
    /\ UNCHANGED <<cm, options, db, conceptMemo, bigMemo, phiTable, calls,
                   workers, hist,
                   restVars>>

\* _big_mip ends before any cut: a single node, no node, or more than one
\* connected component.
BigMipDegenerate(S) ==
    /\ CanCall
    /\ HashSubsystem(S) \notin DOMAIN bigMemo
    /\ Cardinality(S) = 1 \/ S = {} \/ ~OneComponent(S, cm)
    /\ LET mip == IF Cardinality(S) = 1 THEN _single_node_mip(options, S)
                  ELSE _null_mip(S)
       IN /\ ret' = mip
          /\ bigMemo' = Memoize(bigMemo, HashSubsystem(S), mip)
          /\ hist' = (S :> [mip |-> mip, at |-> calls + 1]) @@ hist
    /\ call' = BigMipCall(S)
    /\ local' = Entered(S)
    /\ cacheLog' = {}
    /\ calls' = calls + 1
    /\ pc' = "done"
    /\ UNCHANGED <<cm, options, db, conceptMemo, phiTable, workers,
                   restVars>>

\* _big_mip computes the unpartitioned constellation and dispatches the cuts.
BigMipStart(S) ==
    /\ CanCall
    /\ HashSubsystem(S) \notin DOMAIN bigMemo
    /\ Cardinality(S) > 1 /\ OneComponent(S, cm)
    /\ \E r \in {constellation(cm, phiTable, Caches(db, conceptMemo),
                               "caller", S, null_cut(S))} :
            /\ db' = r.db
            /\ conceptMemo' = r.memo
            /\ cacheLog' = r.touched
            /\ local' = [Entered(S) EXCEPT
                            !.unpartitioned_constellation = r.out,
                            !.tasks = bipartitions(S),
                            !.db0 = r.db, !.memo0 = r.memo]
    /\ call' = BigMipCall(S)
    /\ calls' = calls + 1
    /\ pc' = "dispatched"
    /\ UNCHANGED <<cm, options, bigMemo, phiTable, ret, workers, hist,
                   restVars>>

\* The workers Parallel runs: all of them, or one (n_jobs = 1).
Running == IF options.PARALLEL_CUT_EVALUATION THEN Workers ELSE {1}

\* constellation(subsystem, cut) and its distance to the unpartitioned
\* constellation, as one half of _evaluate_cut.
HalfCutOf(unpartitioned, r) ==
    [st |-> r,
     phi |-> constellation_distance(unpartitioned, r.out),
     partitioned |-> r.out]

HalfCut(E, tbl, st, S, cut, unpartitioned) ==
    HalfCutOf(unpartitioned, constellation(E, tbl, st, "task", S, cut))

_evaluate_cut_keeping_reducible(forward_mip, backward_mip, S) ==
    IF MipLess(backward_mip, forward_mip) THEN backward_mip ELSE forward_mip

\* The end of _evaluate_cut: the smaller of the two, or the null mip.
_evaluate_cut(forward_mip, backward_mip, S) ==
    LET mip == IF MipLess(backward_mip, forward_mip) THEN backward_mip
               ELSE forward_mip
    IN IF Irreducible(mip) THEN mip ELSE _null_mip(S)

\* The values a distance may come out as.
Outcomes(d) == IF d = Undefined THEN PhiVals ELSE {d}

\* A worker starts the next _evaluate_cut task and computes the forward mip.
WorkerForward(w) ==
    /\ pc = "dispatched"
    /\ w \in Running
    /\ workers[w].stage = "idle"
    /\ local.dispatched < Len(local.tasks)
    /\ LET t == local.dispatched + 1
           S == call.subsystem
           cut == forward_cut(local.tasks[t])
       IN \E h \in {HalfCut(cm, phiTable, Caches(db, conceptMemo), S, cut,
                            local.unpartitioned_constellation)} :
          \E phi \in Outcomes(h.phi) :
            /\ db' = h.st.db
            /\ conceptMemo' = h.st.memo
            /\ cacheLog' = cacheLog \cup h.st.touched
            /\ workers' = [workers EXCEPT ![w] =
                  [stage |-> "forward", task |-> t,
                   forward_mip |-> BigMip(phi, cut,
                                          local.unpartitioned_constellation,
                                          h.partitioned, S)]]
            /\ local' = [local EXCEPT !.dispatched = t,
                                      !.distances = (cut :> phi) @@ @,
                                      !.undefined = @ \/ h.phi = Undefined]
    /\ UNCHANGED <<cm, options, bigMemo, phiTable, pc, call, ret, calls, hist,
                   restVars>>

\* The worker computes the backward mip and returns from _evaluate_cut.
WorkerBackward(w) ==
    /\ pc = "dispatched"
    /\ workers[w].stage = "forward"
    /\ LET t == workers[w].task
           S == call.subsystem
           cut == backward_cut(local.tasks[t])
       IN \E h \in {HalfCut(cm, phiTable, Caches(db, conceptMemo), S, cut,
                            local.unpartitioned_constellation)} :
          \E phi \in Outcomes(h.phi) :
            LET backward_mip == BigMip(phi, cut,
                                       local.unpartitioned_constellation,
                                       h.partitioned, S)
            IN /\ db' = h.st.db
               /\ conceptMemo' = h.st.memo
               /\ cacheLog' = cacheLog \cup h.st.touched
               /\ workers' = [workers EXCEPT ![w] = IdleWorker]
               /\ local' = [local EXCEPT
                     !.results = (t :> _evaluate_cut(workers[w].forward_mip,
                                                     backward_mip, S)) @@ @,
                     !.evaluated = @ + 1,
                     !.distances = (cut :> phi) @@ @,
                     !.undefined = @ \/ h.phi = Undefined]
    /\ UNCHANGED <<cm, options, bigMemo, phiTable, pc, call, ret, calls, hist,
                   restVars>>

\* mip_candidates, in the order of the partitions.
mip_candidates == [t \in 1 .. Len(local.tasks) |-> local.results[t]]

\* Parallel has returned: min(mip_candidates), memoized under the cache key.
BigMipFinish ==
    /\ pc = "dispatched"
    /\ DOMAIN local.results = 1 .. Len(local.tasks)
    /\ LET S == call.subsystem
           mip == PyMin(mip_candidates)
       IN /\ ret' = mip
          /\ bigMemo' = Memoize(bigMemo, HashSubsystem(S), mip)
          /\ hist' = (S :> [mip |-> mip, at |-> calls]) @@ hist
    /\ pc' = "done"
    /\ UNCHANGED <<cm, options, db, conceptMemo, phiTable, call, calls, local,
                   workers, cacheLog,
                   restVars>>

Subsystems == SUBSET Nodes

Mechanisms == {{n} : n \in Nodes}

Next ==
    \/ \E M \in Mechanisms : \E cut \in {NoneCut, null_cut(Nodes)} :
            ConceptCall(Nodes, M, cut)
    \/ \E S \in Subsystems : BigMipHit(S)
    \/ \E S \in Subsystems : BigMipDegenerate(S)
    \/ \E S \in Subsystems : BigMipStart(S)
    \/ \E w \in Workers : WorkerForward(w)
    \/ \E w \in Workers : WorkerBackward(w)
    \/ BigMipFinish

Spec == Init /\ [][Next]_vars

-----------------------------------------------------------------------------
(* The value objects on their own: inputs drawn, constructors and          *)
(* comparisons applied                                                     *)

\* The search, not in use.
IdleCompute ==
    /\ cm = Ring
    /\ options = [SINGLE_NODES_WITH_SELFLOOPS_HAVE_PHI |-> FALSE,
                  PARALLEL_CUT_EVALUATION |-> FALSE]
    /\ db = <<>>
    /\ conceptMemo = <<>>
    /\ bigMemo = <<>>
    /\ phiTable = [i \in 1 .. NumNodes |-> 0]
    /\ pc = "idle"
    /\ call = [kind |-> "none", subsystem |-> {}, mechanism |-> {}, cut |-> NoneCut]
    /\ ret = None
    /\ calls = 0
    /\ local = NoLocal
    /\ workers = [w \in Workers |-> IdleWorker]
    /\ cacheLog = {}
    /\ hist = <<>>

InitModels == IdleCompute /\ IdleModels /\ IdleSubsystems

\* Concepts to build from: two of one mechanism (as computed under two
\* cuts), one of another mechanism of the same size, one of a larger one.
ProbeConcepts ==
    {Concept({0}, EPSILON, CutBlanket(Ring, Nodes, {0}, null_cut(Nodes))),
     Concept({0}, EPSILON, CutBlanket(Ring, Nodes, {0}, Cut({0}, Nodes \ {0}))),
     Concept({1}, EPSILON, CutBlanket(Ring, Nodes, {1}, null_cut(Nodes))),
     Concept({0, 1}, EPSILON, CutBlanket(Ring, Nodes, {0, 1}, null_cut(Nodes)))}

\* The tuples of at most n items of a set.
RECURSIVE TuplesUpTo(_, _)
TuplesUpTo(X, n) ==
    IF n = 0 THEN {<<>>}
    ELSE LET shorter == TuplesUpTo(X, n - 1)
         IN shorter \cup {Append(t, x) : t \in shorter, x \in X}

ProbeConceptLists == TuplesUpTo(ProbeConcepts, MaxConcepts)

ProbeSubsystems ==
    {NoSubsystem, SubsystemObject(Nodes, null_cut(Nodes)),
     SubsystemObject({0, 1}, null_cut({0, 1}))}

\* a = CauseEffectStructure(L1, sa); b = CauseEffectStructure(L2, sb)
BuildCes(L1, L2, sa, sb) ==
    /\ probe = NoProbe
    /\ probe' = [op |-> "ces", given |-> <<L1, L2>>,
                 a |-> CauseEffectStructure(L1, sa),
                 b |-> CauseEffectStructure(L2, sb)]
    /\ UNCHANGED <<computeVars, subsystemVars>>

\* SystemIrreducibilityAnalysis(phi, subsystem), as far as ordering reads it:
\* the subsystem's nodes and the network it belongs to.
SystemIrreducibilityAnalysis(phi, S, network) ==
    [phi |-> phi, subsystem |-> S, network |-> network]

\* cmp.Orderable.__lt__: unorderable unless the networks are equal, then the
\* order of order_by().
SiaLess(a, b) ==
    IF a.network # b.network THEN "TypeError"
    ELSE IF TupleLess(order_by(a), order_by(b)) THEN "True" ELSE "False"

ProbeSias ==
    {SystemIrreducibilityAnalysis(phi, S, network) :
        phi \in PhiVals, S \in SUBSET Nodes, network \in {Ring, Chain}}

\* a < b and a > b
CompareSia(a, b) ==
    /\ probe = NoProbe
    /\ probe' = [op |-> "sia", a |-> a, b |-> b,
                 lt |-> SiaLess(a, b), gt |-> SiaLess(b, a)]
    /\ UNCHANGED <<computeVars, subsystemVars>>

\* cut.indices: the nodes a cut of either kind is made over.
CutIndices(c) ==
    IF c.kind = "KCut" THEN KCutIndices(c.cut)
    ELSE c.cut.severed \cup c.cut.intact

\* cut.cut_matrix(n), for a cut of either kind.
CutMatrix(c) ==
    IF c.kind = "KCut" THEN kcut_matrix(c.cut, c.n)
    ELSE directed_cut_matrix(c.cut, c.n)

\* cut.cuts_connections(a, b): cut_matrix[np.ix_(a, b)].any()
cuts_connections(c, a, b) == CutMatrix(c) \cap (a \X b) # {}

\* A reading of "split" as "has nodes in two parts of the partition".
all_cut_mechanisms_across_parts(c) ==
    SelectSeq(SortSubsets((SUBSET CutIndices(c)) \ {{}}),
              LAMBDA m : IF c.kind = "KCut"
                         THEN \E p, q \in DOMAIN c.cut.partition :
                                 /\ p # q
                                 /\ m \cap c.cut.partition[p].mechanism # {}
                                 /\ m \cap c.cut.partition[q].mechanism # {}
                         ELSE splits_mechanism(c.cut, m))

\* cut.all_cut_mechanisms(): the mechanisms of powerset(indices,
\* nonempty=True) that cut.splits_mechanism(mechanism), which is
\* cuts_connections(mechanism, mechanism), accepts.
all_cut_mechanisms(c) ==
    SelectSeq(SortSubsets((SUBSET CutIndices(c)) \ {{}}),
              LAMBDA m : cuts_connections(c, m, m))

\* Subsystem.cut_mechanisms
cut_mechanisms(c) == all_cut_mechanisms(c)

\* The K-partitions of the nodes: every node in the mechanism of one part
\* and in the purview of one part.
KPartitions ==
    {[p \in 1 .. NumParts |->
         Part({n \in Nodes : mp[n] = p}, {n \in Nodes : pp[n] = p})] :
     mp \in [Nodes -> 1 .. NumParts], pp \in [Nodes -> 1 .. NumParts]}

\* The cuts handed to apply_cut, each with the size of the matrices it is
\* used on.
ProbeCuts ==
    {[kind |-> "KCut", n |-> NumNodes, cut |-> KCut(d, P)] :
        d \in {"CAUSE", "EFFECT"}, P \in KPartitions}
    \cup {[kind |-> "KCut", n |-> 4, cut |-> k] : k \in {kcut_past, kcut_future}}
    \cup {[kind |-> "Cut", n |-> NumNodes, cut |-> Cut(A, Nodes \ A)] :
             A \in (SUBSET Nodes) \ {{}, Nodes}}
    \cup {[kind |-> "NullCut", n |-> NumNodes, cut |-> null_cut(Nodes)]}

\* cut.cut_matrix(n) and cut.apply_cut(cm)
ApplyCut(c, E) ==
    /\ probe = NoProbe
    /\ E \subseteq Square(c.n)
    /\ LET marked == IF c.kind = "KCut" THEN kcut_matrix(c.cut, c.n)
                     ELSE directed_cut_matrix(c.cut, c.n)
       IN probe' = [op |-> "cut", kind |-> c.kind, cut |-> c.cut, n |-> c.n,
                    cm |-> E,
                    cut_matrix |-> marked,
                    cut_cm |-> IF c.kind = "KCut"
                               THEN apply_cut_matrix(E, marked, c.n)
                               ELSE apply_cut(E, c.cut),
                    indices |-> CutIndices(c),
                    cut_mechanisms |-> cut_mechanisms(c)]
    /\ UNCHANGED <<computeVars, subsystemVars>>

\* Constellations to compare: at most one concept for a mechanism.
ProbeConstellations ==
    {C \in ProbeConceptLists :
        \A i, j \in DOMAIN C : C[i].mechanism = C[j].mechanism => i = j}

\* The branch constellation_distance(C1, C2, ...) takes.
distance_path(C1, C2) ==
    LET concepts_only_in_C1 == OnlyIn(C1, C2)
        concepts_only_in_C2 == OnlyIn(C2, C1)
    IN IF concepts_only_in_C1 = <<>> \/ concepts_only_in_C2 = <<>>
       THEN "simple" ELSE "emd"

\* constellation_distance(C1, C2, ...) and constellation_distance(C2, C1, ...)
Distance(C1, C2) ==
    /\ probe = NoProbe
    /\ \E d12 \in Outcomes(constellation_distance(C1, C2)) :
       \E d21 \in Outcomes(constellation_distance(C2, C1)) :
          probe' = [op |-> "distance", C1 |-> C1, C2 |-> C2,
                    d12 |-> d12, d21 |-> d21,
                    path |-> distance_path(C1, C2),
                    histograms |->
                        IF distance_path(C1, C2) = "emd"
                        THEN Histograms(C1, C2, OnlyIn(C1, C2), OnlyIn(C2, C1))
                        ELSE None]
    /\ UNCHANGED <<computeVars, subsystemVars>>

\* Subsystem.repertoire
repertoire(direction, sub, mechanism, purview) ==
    IF direction = "CAUSE" THEN cause_repertoire(sub, mechanism, purview)
    ELSE effect_repertoire(sub, mechanism, purview)

\* Subsystems to ask for repertoires: of either network in any state, the
\* whole network or two of its nodes, uncut or with node 0 cut from the rest.
ProbeNetworks == {"gates", "copy"}
ProbeNodeSets == {Nodes, {0, 1}}
ProbeRepertoireSubsystems ==
    {SubsystemOf(network, state, nodes, cut) :
        network \in ProbeNetworks, state \in StatesOf(Nodes),
        nodes \in ProbeNodeSets,
        cut \in {null_cut(Nodes), Cut({0}, Nodes \ {0})}}

\* value = sub.repertoire(direction, mechanism, purview)
Repertoire(direction, sub, mechanism, purview) ==
    /\ probe = NoProbe
    /\ probe' = [op |-> "repertoire", direction |-> direction, sub |-> sub,
                 mechanism |-> mechanism, purview |-> purview,
                 value |-> repertoire(direction, sub, mechanism, purview)]
    /\ UNCHANGED <<computeVars, subsystemVars>>

\* Subsystems to search for MIPs and MICE: each network, whole and uncut,
\* in the states with the last node off.
ProbeMipSubsystems ==
    {SubsystemOf(network, state, Nodes, null_cut(Nodes)) :
        network \in ProbeNetworks,
        state \in {s \in StatesOf(Nodes) : s[NumNodes - 1] = 0}}

\* A phi value is a fraction <<n, d>> in lowest terms; float("inf").
Zero == <<0, 1>>
Infinity == <<1, 0>>
PhiLess(p, q) == p[1] * q[2] < q[1] * p[2]

\* Where Python has None for a partition or a repertoire.
NoPartition == <<>>
NoRepertoire == Array({}, <<>>, 0)

\* partition.directed_bipartition: the bipartitions and, after them and in
\* reverse order, their mirror images.
directed_bipartition(a) ==
    LET half == IF a = <<>> THEN <<>> ELSE bipartition(a)
        n == Len(half)
    IN IF a = <<>> THEN << <<(<<>>), (<<>>)>> >>
       ELSE half \o [k \in 1 .. n |-> <<half[n + 1 - k][2], half[n + 1 - k][1]>>]

\* partition.mip_partitions(mechanism, purview) for bipartitions:
\* product(bipartition(mechanism), directed_bipartition(purview)) without
\* the pairs in which a part has neither mechanism nor purview nodes.
mip_partitions(mechanism, purview) ==
    LET numerators == IF mechanism = {} THEN << <<(<<>>), (<<>>)>> >>
                      ELSE bipartition(SortedSeq(mechanism))
        denominators == directed_bipartition(SortedSeq(purview))
        d == Len(denominators)
        all == [k \in 1 .. (Len(numerators) * d) |->
                   LET n0 == numerators[((k - 1) \div d) + 1]
                       d0 == denominators[((k - 1) % d) + 1]
                   IN <<Part(Range(n0[1]), Range(d0[1])),
                        Part(Range(n0[2]), Range(d0[2]))>>]
    IN SelectSeq(all, LAMBDA b :
                    /\ (b[1].mechanism # {} \/ b[1].purview # {})
                    /\ (b[2].mechanism # {} \/ b[2].purview # {}))

\* Subsystem.partitioned_repertoire
partitioned_repertoire(sub, direction, partition) ==
    Product([k \in DOMAIN partition |->
                repertoire(direction, sub, partition[k].mechanism,
                           partition[k].purview)])

\* metrics.distribution.repertoire_distance with REPERTOIRE_DISTANCE = L1:
\* the sum of the absolute differences of the entries.
repertoire_distance(r, pr) ==
    LET diff == [x \in StatesOf(r.axes) |->
                    LET a == r.vals[x] * pr.den
                        b == pr.vals[Restrict(x, pr.axes)] * r.den
                    IN IF a > b THEN a - b ELSE b - a]
    IN Fraction(SumOver(diff, StatesOf(r.axes)), r.den * pr.den)

\* Subsystem.evaluate_partition: (phi, partitioned_repertoire)
evaluate_partition(sub, direction, partition, unpartitioned) ==
    LET pr == partitioned_repertoire(sub, direction, partition)
    IN <<repertoire_distance(unpartitioned, pr), pr>>

\* RepertoireIrreducibilityAnalysis
RepertoireIrreducibilityAnalysis(phi, direction, mechanism, purview, partition, r, pr) ==
    [phi |-> phi, direction |-> direction, mechanism |-> mechanism,
     purview |-> purview, partition |-> partition,
     repertoire |-> r, partitioned_repertoire |-> pr]

\* models._null_ria(direction, mechanism, purview, phi=phi)
_null_ria(direction, mechanism, purview, phi) ==
    RepertoireIrreducibilityAnalysis(phi, direction, mechanism, purview,
                                     NoPartition, NoRepertoire, NoRepertoire)

\* One round of the loop of find_mip over the partitions from the k-th on:
\* the analysis returned and the number of partitions evaluated.
RECURSIVE MipLoop(_, _, _, _, _)
MipStep(sub, unpartitioned, partitions, k, mip, evaluated) ==
    IF evaluated[1][1] = 0
    THEN [mip |-> RepertoireIrreducibilityAnalysis(
                      Zero, mip.direction, mip.mechanism, mip.purview,
                      partitions[k], unpartitioned, evaluated[2]),
          evaluated |-> k]
    ELSE MipLoop(sub, unpartitioned, partitions, k + 1,
                 IF PhiLess(evaluated[1], mip.phi)
                 THEN RepertoireIrreducibilityAnalysis(
                          evaluated[1], mip.direction, mip.mechanism,
                          mip.purview, partitions[k], unpartitioned,
                          evaluated[2])
                 ELSE mip)

MipLoop(sub, unpartitioned, partitions, k, mip) ==
    IF k > Len(partitions) THEN [mip |-> mip, evaluated |-> k - 1]
    ELSE MipStep(sub, unpartitioned, partitions, k, mip,
                 evaluate_partition(sub, mip.direction, partitions[k],
                                    unpartitioned))

\* Subsystem.find_mip once the unpartitioned repertoire is known.
FindMipFrom(sub, direction, mechanism, purview, unpartitioned) ==
    IF direction = "CAUSE" /\ Total(unpartitioned) = 0
    THEN [mip |-> RepertoireIrreducibilityAnalysis(
                      Zero, direction, mechanism, purview, NoPartition,
                      unpartitioned, NoRepertoire),
          evaluated |-> 0]
    ELSE MipLoop(sub, unpartitioned, mip_partitions(mechanism, purview), 1,
                 _null_ria(direction, mechanism, purview, Infinity))

\* Subsystem.find_mip
find_mip(sub, direction, mechanism, purview) ==
    IF purview = {}
    THEN [mip |-> _null_ria(direction, mechanism, purview, Zero),
          evaluated |-> 0]
    ELSE FindMipFrom(sub, direction, mechanism, purview,
                     repertoire(direction, sub, mechanism, purview))

\* The distance of every partition mip_partitions enumerates, in order.
PartitionDistances(sub, direction, mechanism, purview) ==
    LET partitions == mip_partitions(mechanism, purview)
    IN [k \in DOMAIN partitions |->
           evaluate_partition(sub, direction, partitions[k],
                              repertoire(direction, sub, mechanism,
                                         purview))[1]]

\* subsystem.find_mip(direction, mechanism, purview)
FindMip(direction, sub, mechanism, purview) ==
    /\ probe = NoProbe
    /\ \E r \in {find_mip(sub, direction, mechanism, purview)} :
          probe' = [op |-> "find_mip", direction |-> direction, sub |-> sub,
                    mechanism |-> mechanism, purview |-> purview,
                    partitions |-> mip_partitions(mechanism, purview),
                    distances |-> IF purview = {} THEN <<>>
                                  ELSE PartitionDistances(sub, direction,
                                                          mechanism, purview),
                    repertoire |-> repertoire(direction, sub, mechanism,
                                              purview),
                    evaluated |-> r.evaluated,
                    mip |-> r.mip]
    /\ UNCHANGED <<computeVars, subsystemVars>>

\* MaximallyIrreducibleCause / MaximallyIrreducibleEffect: an analysis and
\* the analyses it is tied with.
MaximallyIrreducibleCauseOrEffect(ria, ties) == [ria |-> ria, ties |-> ties]

\* resolve_ties.mice over analyses listed in the order of their purviews
\* (by size, then lexicographically): those of greatest phi, and of them
\* those of the smallest purview.
resolve_ties_mice(all_mips) ==
    LET top == {i \in DOMAIN all_mips :
                   \A j \in DOMAIN all_mips :
                      ~PhiLess(all_mips[i].phi, all_mips[j].phi)}
        smallest == {i \in top :
                        \A j \in top :
                           Cardinality(all_mips[i].purview)
                              <= Cardinality(all_mips[j].purview)}
        kept == SortedSeq(smallest)
    IN [k \in DOMAIN kept |-> all_mips[kept[k]]]

\* The analyses find_mice collects: find_mip for each potential purview.
all_mips_of(sub, direction, mechanism) ==
    LET purviews == SortSubsets(potential_purviews(sub, direction, mechanism))
    IN [k \in DOMAIN purviews |->
           find_mip(sub, direction, mechanism, purviews[k]).mip]

\* find_mice that returns the analysis of the first purview.
MaxMice_of_first_purview(direction, mechanism, all_mips) ==
    IF all_mips = <<>>
    THEN MaximallyIrreducibleCauseOrEffect(
             _null_ria(direction, mechanism, {}, Zero), <<>>)
    ELSE MaximallyIrreducibleCauseOrEffect(all_mips[1], <<all_mips[1]>>)

\* The end of Subsystem.find_mice: max_mice, given the analyses of the
\* potential purviews (none if there is no potential purview).
MaxMice(direction, mechanism, all_mips) ==
    IF all_mips = <<>>
    THEN MaximallyIrreducibleCauseOrEffect(
             _null_ria(direction, mechanism, {}, Zero), <<>>)
    ELSE (LET ties == resolve_ties_mice(all_mips)
          IN MaximallyIrreducibleCauseOrEffect(ties[1], ties))

\* Subsystem.find_mice, computed (IIT_VERSION is the classic one).
find_mice(sub, direction, mechanism) ==
    MaxMice(direction, mechanism, all_mips_of(sub, direction, mechanism))

\* subsystem.find_mice(direction, mechanism)
FindMice(direction, sub, mechanism) ==
    /\ probe = NoProbe
    /\ \E all_mips \in {all_mips_of(sub, direction, mechanism)} :
       \E max_mice \in {MaxMice(direction, mechanism, all_mips)} :
          probe' = [op |-> "find_mice", direction |-> direction, sub |-> sub,
                    mechanism |-> mechanism,
                    purviews |-> potential_purviews(sub, direction, mechanism),
                    all_mips |-> all_mips,
                    max_mice |-> max_mice]
    /\ UNCHANGED <<computeVars, subsystemVars>>

\* concept(subsystem, mechanism, cut) on a network, the persistent cache
\* empty or holding a concept under the raw fingerprint of the call.
ConceptOn(E, S, M, cut, filled) ==
    /\ probe = NoProbe
    /\ LET c == DefaultCut(S, cut)
           d == IF filled
                THEN dbSet(<<>>, RawMarblSet(E, M, c),
                           Concept(M, EPSILON, CutBlanket(E, S, M, c)))
                ELSE <<>>
       IN \E r \in {concept(E, [i \in 1 .. NumNodes |-> EPSILON],
                            Caches(d, <<>>), "caller", S, M, cut)} :
             probe' = [op |-> "concept", cm |-> E, subsystem |-> S,
                       mechanism |-> M, cut |-> cut, db0 |-> d,
                       db |-> r.db, memo |-> r.memo, trace |-> r.trace,
                       touched |-> r.touched, value |-> r.value]
    /\ UNCHANGED <<computeVars, subsystemVars>>

\* The lists handed to bipartition: up to MaxLen different nodes in any
\* order.
MaxLen == 4
ProbeLists ==
    {a \in UNION {[1 .. n -> 0 .. (MaxLen - 1)] : n \in 1 .. MaxLen} :
        \A i, j \in DOMAIN a : a[i] = a[j] => i = j}

\* list(utils.bipartition(a))
Bipartition(a) ==
    /\ probe = NoProbe
    /\ probe' = [op |-> "bipartition", a |-> a, pairs |-> bipartition(a)]
    /\ UNCHANGED <<computeVars, subsystemVars>>

\* The number of values of hash() in the model: fewer than there are
\* subsystems, as 2^64 is fewer than the subsystems of all networks.
NumHashes == 2

\* The subsystems of a network on which _big_mip ends before any cut: a
\* single node, no node, or more than one connected component.
Degenerate(E) ==
    {S \in SUBSET Nodes : Cardinality(S) = 1 \/ S = {} \/ ~OneComponent(S, E)}

\* _big_mip(cache_key, subsystem) on such a subsystem.
DegenerateMip(opts, S) ==
    IF Cardinality(S) = 1 THEN _single_node_mip(opts, S) ELSE _null_mip(S)

\* big_mip(s1) and then big_mip(s2), the memo of _big_mip empty at first,
\* under a hash function h.
BigMipTwice(E, opts, h, s1, s2) ==
    /\ probe = NoProbe
    /\ LET first == DegenerateMip(opts, s1)
           memo == Memoize(<<>>, h[s1], first)
           second == IF h[s2] \in DOMAIN memo THEN memo[h[s2]]
                     ELSE DegenerateMip(opts, s2)
       IN probe' = [op |-> "big_mip", cm |-> E, options |-> opts, hash |-> h,
                    s1 |-> s1, s2 |-> s2, first |-> first, second |-> second]
    /\ UNCHANGED <<computeVars, subsystemVars>>

NextModels ==
    \/ \E L1, L2 \in ProbeConceptLists : \E sa, sb \in ProbeSubsystems :
            BuildCes(L1, L2, sa, sb)
    \/ \E a, b \in ProbeSias : CompareSia(a, b)
    \/ \E c \in ProbeCuts : \E E \in {Ones(c.n), Skew} : ApplyCut(c, E)
    \/ \E C1, C2 \in ProbeConstellations : Distance(C1, C2)
    \/ \E direction \in {"CAUSE", "EFFECT"} :
            \E sub \in ProbeRepertoireSubsystems :
                \E mechanism, purview \in SUBSET sub.nodes :
                    Repertoire(direction, sub, mechanism, purview)
    \/ \E direction \in {"CAUSE", "EFFECT"} :
            \E sub \in ProbeMipSubsystems :
                \E mechanism, purview \in SUBSET sub.nodes :
                    FindMip(direction, sub, mechanism, purview)
    \/ \E a \in ProbeLists : Bipartition(a)
    \/ \E E \in Networks :
            \E opts \in [SINGLE_NODES_WITH_SELFLOOPS_HAVE_PHI : BOOLEAN,
                          PARALLEL_CUT_EVALUATION : {FALSE}] :
                \E h \in [Degenerate(E) -> 0 .. (NumHashes - 1)] :
                    \E s1, s2 \in Degenerate(E) :
                        BigMipTwice(E, opts, h, s1, s2)
    \/ \E E \in Networks : \E S \in SUBSET Nodes : \E M \in SUBSET S :
            \E cut \in {NoneCut, null_cut(S)} : \E filled \in BOOLEAN :
                ConceptOn(E, S, M, cut, filled)
    \/ \E direction \in {"CAUSE", "EFFECT"} :
            \E sub \in ProbeMipSubsystems :
                \E mechanism \in SUBSET sub.nodes :
                    FindMice(direction, sub, mechanism)

SpecModels == InitModels /\ [][NextModels]_vars

-----------------------------------------------------------------------------
(* Subsystem objects and their caches: subsystems built, cut and flushed,  *)
(* repertoires and MICE asked of them                                      *)

\* The first subsystem: the whole OR/AND/XOR network, uncut, with node 0 on
\* and the others off.
FirstStates == {[n \in Nodes |-> IF n = 0 THEN 1 ELSE 0]}

InitSubsystems ==
    /\ IdleCompute
    /\ IdleModels
    /\ \E state \in FirstStates :
          subsystems =
              <<Subsystem(SubsystemOf("gates", state, Nodes, null_cut(Nodes)),
                          NoCache)>>
    /\ answer = NoAnswer
    /\ steps = 0

\* What is asked of the subsystems.
AskedMechanisms == {{0}, {1, 2}}
AskedPurviews == {{1}, {0, 2}}
AskedUnits == {{}, {0}}
AskedCuts == {Cut({0}, Nodes \ {0}), Cut({1, 2}, {0})}

Answered(op, i, o) ==
    /\ subsystems' = [subsystems EXCEPT ![i] = o.obj]
    /\ answer' = [op |-> op, obj |-> i, served |-> o.served,
                  value |-> o.value]
    /\ steps' = steps + 1

\* subsystems[i].repertoire(direction, mechanism, purview,
\*                          nonvirtualized_units=units)
AskRepertoire(i, direction, mechanism, purview, units) ==
    /\ steps < MaxSteps
    /\ Answered("repertoire", i,
                CachedRepertoire(CallOn(subsystems[i]), i, steps + 1, direction,
                                 mechanism, purview, units))
    /\ UNCHANGED <<computeVars, modelVars>>

\* subsystems[i].find_mice(direction, mechanism)
AskMice(i, direction, mechanism) ==
    /\ steps < MaxSteps
    /\ \E purview \in MicePurviews(subsystems[i], direction, mechanism) :
          Answered("find_mice", i,
                   CachedFindMice(CallOn(subsystems[i]), i, steps + 1,
                                  direction, mechanism, purview))
    /\ UNCHANGED <<computeVars, modelVars>>

\* subsystems[i].apply_cut(cut)
CutSubsystem(i, cut) ==
    /\ steps < MaxSteps
    /\ Len(subsystems) < MaxSubsystems
    /\ subsystems' = Append(subsystems, SubsystemApplyCut(subsystems[i], cut))
    /\ answer' = [op |-> "apply_cut", obj |-> Len(subsystems) + 1,
                  served |-> {}, value |-> None]
    /\ steps' = steps + 1
    /\ UNCHANGED <<computeVars, modelVars>>

\* subsystems[i].clear_caches()
ClearCaches(i) ==
    /\ steps < MaxSteps
    /\ subsystems' = [subsystems EXCEPT ![i] = clear_caches(@, steps + 1)]
    /\ answer' = [op |-> "clear_caches", obj |-> i, served |-> {},
                  value |-> None]
    /\ steps' = steps + 1
    /\ UNCHANGED <<computeVars, modelVars>>

NextSubsystems ==
    \/ \E i \in DOMAIN subsystems : \E direction \in {"CAUSE", "EFFECT"} :
          \E mechanism \in AskedMechanisms : \E purview \in AskedPurviews :
              \E units \in AskedUnits :
                  AskRepertoire(i, direction, mechanism, purview, units)
    \/ \E i \in DOMAIN subsystems : \E direction \in {"CAUSE", "EFFECT"} :
          \E mechanism \in AskedMechanisms : AskMice(i, direction, mechanism)
    \/ \E i \in DOMAIN subsystems : \E cut \in AskedCuts : CutSubsystem(i, cut)
    \/ \E i \in DOMAIN subsystems : ClearCaches(i)

SpecSubsystems == InitSubsystems /\ [][NextSubsystems]_vars

-----------------------------------------------------------------------------
(* What the claims speak of *)

Returned(kind) == pc = "done" /\ call.kind = kind

\* The big_mip call that has just returned went through every cut.
Searched == Returned("big_mip") /\ local.tasks # <<>>

\* The unidirectional cuts of the non-trivial bipartitions of a node set.
UnidirectionalCuts(S) ==
    {Cut(A, S \ A) : A \in (SUBSET S) \ {{}, S}}

\* concept() without any cache.
UncachedConcept(S, M, cut) ==
    IF ~PreChecks(cm, S, M) THEN None
    ELSE _concept(cm, phiTable, S, M, DefaultCut(S, cut))

\* _evaluate_cut as one step, from given caches.
EvaluateCutFrom(st, S, partition, unpartitioned) ==
    LET f == HalfCut(cm, phiTable, Caches(st.db, st.memo), S,
                     forward_cut(partition), unpartitioned)
        b == HalfCut(cm, phiTable, Caches(f.st.db, f.st.memo), S,
                     backward_cut(partition), unpartitioned)
    IN [st |-> b.st,
        defined |-> f.phi # Undefined /\ b.phi # Undefined,
        mip |-> _evaluate_cut(
                   BigMip(f.phi, forward_cut(partition), unpartitioned,
                          f.partitioned, S),
                   BigMip(b.phi, backward_cut(partition), unpartitioned,
                          b.partitioned, S),
                   S)]

RECURSIVE SingleThreaded(_, _, _, _, _)
SingleThreaded(st, S, tasks, unpartitioned, acc) ==
    IF tasks = <<>> THEN acc
    ELSE LET r == EvaluateCutFrom(st, S, Head(tasks), unpartitioned)
         IN SingleThreaded(r.st, S, Tail(tasks), unpartitioned,
                           [defined |-> acc.defined /\ r.defined,
                            mips |-> Append(acc.mips, r.mip)])

\* What the run with n_jobs = 1 returns from the caches as they were at
\* dispatch.
SingleThreadedRun ==
    LET r == SingleThreaded(Caches(local.db0, local.memo0), call.subsystem,
                            local.tasks, local.unpartitioned_constellation,
                            [defined |-> TRUE, mips |-> <<>>])
    IN [defined |-> r.defined, mip |-> PyMin(r.mips)]

MinDistance == SetMin({local.distances[c] : c \in DOMAIN local.distances})

-----------------------------------------------------------------------------
(* Reducibility, the two-sided cuts and the single-node convention *)

\* C1: big_mip of a subsystem of at least 2 nodes whose connectivity is not
\* strongly connected returns phi = 0 and an empty partitioned constellation.
C1_NotStronglyConnectedIsReducible ==
    (/\ Returned("big_mip")
     /\ Cardinality(call.subsystem) >= 2
     /\ ~StronglyConnected(call.subsystem, cm))
    => (ret.phi = 0 /\ ret.partitioned_constellation = <<>>)

\* The case of C1 that gets past the component count: one weak component,
\* every cut evaluated, concepts in the unpartitioned constellation.
C1_Witness ==
    /\ Searched
    /\ ~StronglyConnected(call.subsystem, cm)
    /\ local.unpartitioned_constellation # <<>>
    /\ ret.phi = 0 /\ ret.partitioned_constellation = <<>>

\* C2: for a strongly connected subsystem of at least 2 nodes, both cuts of
\* every non-trivial bipartition are evaluated, the phi returned is the least
\* constellation distance over those cuts, and where that is below EPSILON
\* the null BigMip is returned.
C2_MinimumOverBothCuts ==
    (Searched /\ StronglyConnected(call.subsystem, cm))
    => /\ DOMAIN local.distances = UnidirectionalCuts(call.subsystem)
       /\ IF MinDistance < EPSILON THEN ret = _null_mip(call.subsystem)
          ELSE ret.phi = MinDistance

\* C3: big_mip of a single node with a self-loop returns phi = 0 with
\* SINGLE_NODES_WITH_SELFLOOPS_HAVE_PHI off and phi = 0.5 with it on.
C3_SingleNodeConvention ==
    (/\ Returned("big_mip")
     /\ Cardinality(call.subsystem) = 1
     /\ \A n \in call.subsystem : <<n, n>> \in cm)
    => ret.phi = (IF options.SINGLE_NODES_WITH_SELFLOOPS_HAVE_PHI
                  THEN SingleNodePhi ELSE 0)

C3_Witness ==
    /\ Returned("big_mip")
    /\ Cardinality(call.subsystem) = 1
    /\ \A n \in call.subsystem : <<n, n>> \in cm
    /\ options.SINGLE_NODES_WITH_SELFLOOPS_HAVE_PHI
    /\ ret.phi = SingleNodePhi

\* C4: a big_mip call on a subsystem big_mip was given before returns the
\* BigMip returned then and evaluates no cut, whatever was called in between.
C4_SecondCallServedFromMemo ==
    (Returned("big_mip") /\ local.seen)
    => (ret = local.prev /\ local.evaluated = 0 /\ local.dispatched = 0)

\* A searched, irreducible subsystem asked for again after another call.
C4_Witness ==
    /\ Returned("big_mip")
    /\ local.seen
    /\ local.between > 0
    /\ ret.phi > 0
    /\ Cardinality(call.subsystem) > 1

-----------------------------------------------------------------------------
(* The concept caches *)

\* The fingerprints of the concept() call that has just returned.
CallCut == DefaultCut(call.subsystem, call.cut)
CallRaw == RawMarblSet(cm, call.mechanism, CallCut)
CallMarblSet == MarblSet(cm, call.mechanism, CallCut)

Looked == Returned("concept") /\ PreChecks(cm, call.subsystem, call.mechanism)

\* C5: whatever concept() calls came before, what concept(subsystem,
\* mechanism, cut) returns is the concept an uncached computation for the
\* same arguments produces, its mechanism included.
C5_CachedConceptIsTheConcept ==
    Returned("concept")
    => ret = UncachedConcept(call.subsystem, call.mechanism, call.cut)

\* C6: concept() looks the raw fingerprint up first; only when that gives
\* nothing does it take the normal form and look that up; only when that
\* misses too does it compute, and the computed concept is then kept under
\* the normal form.
C6_ThreeStepLookup ==
    Looked =>
      LET t == local.trace
      IN /\ Len(t) >= 1
         /\ t[1].op = "db.get" /\ t[1].key = CallRaw
         /\ t[1].hit = (CallRaw \in DOMAIN local.db0 /\ local.db0[CallRaw].some)
         /\ t[1].hit => (Len(t) = 1 /\ ret = local.db0[CallRaw]
                         /\ conceptMemo = local.memo0)
         /\ ~t[1].hit =>
              /\ t[2].op = "memo.get" /\ t[2].key = CallMarblSet
              /\ t[2].hit = (CallMarblSet \in DOMAIN local.memo0)
              /\ t[2].hit =>
                   /\ \A i \in DOMAIN t : t[i].op \notin {"_concept", "memo.set"}
                   /\ ret = local.memo0[CallMarblSet]
                   /\ conceptMemo = local.memo0
              /\ ~t[2].hit =>
                   /\ t[3].op = "_concept"
                   /\ t[4].op = "memo.set" /\ t[4].key = CallMarblSet
                   /\ ret = UncachedConcept(call.subsystem, call.mechanism,
                                            call.cut)
                   /\ conceptMemo = (CallMarblSet :> ret) @@ local.memo0

\* The lookup that goes all three steps, other concepts being cached.
C6_Witness ==
    Looked /\ ~local.trace[1].hit /\ ~local.trace[2].hit /\ ret.some
    /\ local.memo0 # <<>>

-----------------------------------------------------------------------------
(* The workers *)

\* C7: whatever the order in which the workers start and finish their
\* _evaluate_cut tasks, big_mip returns the phi and the cut that the
\* single-threaded run returns.
C7_ResultIndependentOfScheduling ==
    (Searched /\ ~local.undefined /\ SingleThreadedRun.defined)
    => (ret.phi = SingleThreadedRun.mip.phi
        /\ ret.cut = SingleThreadedRun.mip.cut)

\* C8: where several evaluated cuts have the phi that is returned, the cut
\* returned is the lexicographically smallest of them.
C8_TiesGoToSmallestCut ==
    (Searched /\ ret.phi > 0)
    => \A c \in DOMAIN local.distances :
          local.distances[c] = ret.phi => ~CutLess(c, ret.cut)

\* C9: during big_mip no _evaluate_cut task reads or writes the persistent
\* concept cache: all of that is done by the caller before dispatch.
C9_WorkersLeaveCacheAlone ==
    call.kind = "big_mip" => "task" \notin cacheLog

-----------------------------------------------------------------------------
(* The constellation *)

\* The mechanisms of the concepts of a constellation, in order.
MechanismsOf(C) == [i \in DOMAIN C |-> C[i].mechanism]

\* The mechanisms of the subsystem whose concept, computed afresh under the
\* cut, is a concept.
ProperMechanisms(S, cut) ==
    SelectSeq(powerset(S), LAMBDA M : UncachedConcept(S, M, cut).some)

\* C is the constellation of S under the cut: concepts only, each with the
\* small phi of its mechanism, one for every proper mechanism and no other.
IsConstellationOf(C, S, cut) ==
    /\ \A i \in DOMAIN C :
          /\ C[i].some
          /\ C[i].phi >= EPSILON
          /\ C[i].phi = SmallPhi(cm, phiTable, S, C[i].mechanism, cut)
    /\ MechanismsOf(C) = ProperMechanisms(S, cut)

\* C11: every concept of a constellation returned by constellation(subsystem,
\* cut) has phi >= EPSILON, phi being the smaller of the cause and the effect
\* phi, and the constellation holds a concept for exactly the non-empty node
\* subsets whose concept has phi >= EPSILON, cached or computed.
C11_ConstellationIsTheProperConcepts ==
    (call.kind = "big_mip" /\ local.tasks # <<>>)
    => /\ IsConstellationOf(local.unpartitioned_constellation,
                            call.subsystem, null_cut(call.subsystem))
       /\ \A w \in Workers :
             workers[w].stage = "forward"
             => IsConstellationOf(
                    workers[w].forward_mip.partitioned_constellation,
                    call.subsystem, workers[w].forward_mip.cut)

-----------------------------------------------------------------------------
(* Cause-effect structures *)

\* The two lists hold the same concepts, each as many times.
SameCollection(L1, L2) ==
    /\ Len(L1) = Len(L2)
    /\ \A c \in Range(L1) \cup Range(L2) :
          Cardinality({i \in DOMAIN L1 : L1[i] = c})
            = Cardinality({i \in DOMAIN L2 : L2[i] = c})

\* C12: two CauseEffectStructures that are equal have equal hashes, also
\* when they were built with different subsystem arguments.
C12_EqualCesHashEqual ==
    (probe.op = "ces" /\ CesEq(probe.a, probe.b))
    => CesHash(probe.a) = CesHash(probe.b)

\* C13: a CauseEffectStructure stores its concepts in the order of
\* (|mechanism|, mechanism): two orderings of the same collection of concepts
\* give the same stored tuple, and the two structures are equal.
C13_StoredOrderIsCanonical ==
    (probe.op = "ces" /\ SameCollection(probe.given[1], probe.given[2]))
    => /\ \A i, j \in DOMAIN probe.a.concepts :
             i < j => ~TupleLess(_concept_sort_key(probe.a.concepts[j]),
                                 _concept_sort_key(probe.a.concepts[i]))
       /\ probe.a.concepts = probe.b.concepts
       /\ CesEq(probe.a, probe.b)

-----------------------------------------------------------------------------
(* The order of analyses *)

\* Node tuples of one length, in the order of Python tuples: the least node
\* that only one of them has is in the smaller one.
IndicesLess(A, B) ==
    /\ A # B
    /\ SetMin((A \ B) \cup (B \ A)) \in A

-----------------------------------------------------------------------------
(* Cuts *)

\* The part of a K-partition that has node x in its mechanism, and the part
\* that has it in its purview.
MechanismPart(cut, x) ==
    {p \in DOMAIN cut.partition : x \in cut.partition[p].mechanism}
PurviewPart(cut, x) ==
    {p \in DOMAIN cut.partition : x \in cut.partition[p].purview}

\* The entries the claim has a KCut mark: from a purview node to a mechanism
\* node of another part for CAUSE, from a mechanism node to a purview node
\* of another part for EFFECT.
MarkedAcrossParts(cut, n) ==
    {e \in Square(n) :
        IF cut.direction = "CAUSE"
        THEN \E p \in PurviewPart(cut, e[1]) :
                \E q \in MechanismPart(cut, e[2]) : p # q
        ELSE \E p \in MechanismPart(cut, e[1]) :
                \E q \in PurviewPart(cut, e[2]) : p # q}

\* C20: applying a cut zeroes exactly the entries its cut_matrix marks and
\* leaves every other entry as it was; a KCut marks (i, j) exactly when i
\* and j are in different parts, i a purview and j a mechanism node for
\* CAUSE, i a mechanism and j a purview node for EFFECT; the null cut zeroes
\* nothing.  The fixtures of the tests come out as the tests expect.
C20_CutZeroesMarkedEntries ==
    probe.op = "cut" =>
      /\ \A e \in Square(probe.n) :
            Entry(probe.cut_cm, e[1], e[2])
              = (IF e \in probe.cut_matrix THEN 0
                 ELSE Entry(probe.cm, e[1], e[2]))
      /\ probe.cut_cm \subseteq Square(probe.n)
      /\ probe.kind = "KCut"
            => probe.cut_matrix = MarkedAcrossParts(probe.cut, probe.n)
      /\ probe.kind = "Cut"
            => probe.cut_matrix
                 = {e \in Square(probe.n) : e[1] \in probe.cut.severed
                                            /\ e[2] \in probe.cut.intact}
      /\ probe.kind = "NullCut" => probe.cut_cm = probe.cm
      /\ probe.cut = kcut_past
            => /\ probe.cut_matrix = expected_cut_matrix_past
               /\ probe.cm = Ones(4) => probe.cut_cm = expected_cut_cm_past
      /\ probe.cut = kcut_future
            => /\ probe.cut_matrix = expected_cut_matrix_future
               /\ probe.cm = Ones(4) => probe.cut_cm = expected_cut_cm_future

\* A KCut whose parts mix mechanism and purview nodes, applied to a matrix
\* with entries both inside and outside the marks.
C20_Witness ==
    /\ probe.op = "cut"
    /\ probe.kind = "KCut"
    /\ probe.cut.direction = "CAUSE"
    /\ \E x \in KCutIndices(probe.cut) :
          MechanismPart(probe.cut, x) # PurviewPart(probe.cut, x)
    /\ probe.cm \cap probe.cut_matrix # {}
    /\ probe.cut_cm # {}
    /\ probe.cut_cm # probe.cm

-----------------------------------------------------------------------------
(* The distance between constellations *)

\* C16: constellation_distance(C1, C2) = constellation_distance(C2, C1), on
\* the simple path and on the EMD path.
C16_DistanceIsSymmetric ==
    probe.op = "distance" => probe.d12 = probe.d21

-----------------------------------------------------------------------------
(* Repertoires *)

Asked(direction) == probe.op = "repertoire" /\ probe.direction = direction

\* The network state in which the subsystem's nodes are in state t and the
\* nodes outside it in their current state.
Within(sub, t) == t @@ Restrict(sub.state, Nodes \ sub.nodes)

\* Some state of the purview can lead each node of the mechanism, taken on
\* its own and with its other inputs free, to its current state.
Specifiable(sub, mechanism, purview) ==
    \E x \in StatesOf(purview) : \A m \in mechanism :
        \E t \in StatesOf(sub.nodes) :
            /\ \A n \in purview \cap NodeInputs(sub, m) : t[n] = x[n]
            /\ NextState(sub.network, m, Within(sub, t)) = sub.state[m]

SumsToOne(a) == Total(a) = a.den
AllZero(a) == \A x \in DOMAIN a.vals : a.vals[x] = 0

\* C14 as stated: in any state, the cause repertoire over a non-empty
\* purview sums to 1, and a repertoire over the empty purview is the
\* scalar 1.
C14_CauseRepertoireSumsToOneInAnyState ==
    probe.op = "repertoire" =>
        IF probe.purview = {} THEN probe.value = ScalarOne
        ELSE probe.direction = "CAUSE" => SumsToOne(probe.value)

\* C14 amended: the cause repertoire over a non-empty purview sums to 1
\* when some purview state can lead to the mechanism's state, and is all
\* zero when none can; a repertoire over the empty purview is the scalar 1.
C14_CauseRepertoireSumsToOne ==
    probe.op = "repertoire" =>
        IF probe.purview = {} THEN probe.value = ScalarOne
        ELSE probe.direction = "CAUSE" =>
                IF Specifiable(probe.sub, probe.mechanism, probe.purview)
                THEN SumsToOne(probe.value)
                ELSE AllZero(probe.value)

\* A normalized cause repertoire that is not uniform, of a cut subsystem.
C14_Witness ==
    /\ Asked("CAUSE")
    /\ Cardinality(probe.mechanism) = 2
    /\ probe.purview = probe.sub.nodes
    /\ probe.sub.cut.severed # {}
    /\ SumsToOne(probe.value)
    /\ \E x, y \in DOMAIN probe.value.vals :
            probe.value.vals[x] # probe.value.vals[y]

RECURSIVE ProductOf(_, _)
ProductOf(f, D) ==
    IF D = {} THEN 1
    ELSE LET x == CHOOSE y \in D : TRUE IN f[x] * ProductOf(f, D \ {x})

\* In how many states of the subsystem's nodes node p goes to v.
WaysTo(sub, p, v) ==
    Cardinality({t \in StatesOf(sub.nodes) :
                    NextState(sub.network, p, Within(sub, t)) = v})

IsUniform(a, purview) ==
    /\ a.axes = purview
    /\ \A x \in DOMAIN a.vals :
            Fraction(a.vals[x], a.den) = Fraction(1, 2 ^ Cardinality(purview))

\* Every purview node has its next state with the probability it has when
\* the state of the subsystem is unknown, independently of the others.
IsUnconstrained(a, sub, purview) ==
    /\ a.axes = purview
    /\ \A x \in DOMAIN a.vals :
            Fraction(a.vals[x], a.den)
              = Fraction(ProductOf([p \in purview |-> WaysTo(sub, p, x[p])],
                                   purview),
                         (2 ^ Cardinality(sub.nodes)) ^ Cardinality(purview))

-----------------------------------------------------------------------------
(* The caches of a subsystem *)

Asking == answer.op \in {"repertoire", "find_mice"}

RepertoireCaches ==
    {"_single_node_repertoire_cache", "_repertoire_cache",
     "_repertoire_nonvirtualized_cache"}

\* C17: no lookup on a Subsystem object returns an entry written through
\* another Subsystem object, the subsystem apply_cut returns and its parent
\* included: every entry a call is served from was written through the
\* object the call is made on.
C17_CachesNeverCross ==
    Asking => \A e \in answer.served : e.by = answer.obj

\* C18: after clear_caches every cache of the subsystem is empty (single-node
\* repertoire, joint repertoire, non-virtualized repertoire and MICE), and
\* no later request is served from an entry written before the flush.
C18_ClearCachesEmptiesEveryCache ==
    /\ answer.op = "clear_caches" =>
          \A name \in RepertoireCaches \cup {"_mice_cache"} :
              subsystems[answer.obj][name] = {}
    /\ Asking =>
          \A e \in answer.served :
              e.by = answer.obj => e.at > subsystems[answer.obj].cleared

-----------------------------------------------------------------------------
(* The mechanisms a cut splits *)

\* The cut severs a connection between two nodes of m, which may be the
\* same node.
SeversWithin(marked, m) == \E a, b \in m : <<a, b>> \in marked

\* C21: all_cut_mechanisms() lists exactly the non-empty subsets m of the
\* cut's indices in which the cut severs a connection between two nodes of
\* m (a node's connection to itself included), each once, ordered by size
\* and then lexicographically.
C21_CutMechanismsAreTheSplitOnes ==
    probe.op = "cut" =>
        LET listed == probe.cut_mechanisms
        IN /\ {listed[i] : i \in DOMAIN listed}
                = {m \in (SUBSET probe.indices) \ {{}} :
                      SeversWithin(probe.cut_matrix, m)}
           /\ \A i, j \in DOMAIN listed :
                 i < j => SubsetLess(listed[i], listed[j])

\* test_all_cut_mechanisms and test_splits_mechanism: for kcut_past the
\* one-node mechanism (2,) is listed, (0,) and (3,) are not.
C21_Witness ==
    /\ probe.op = "cut"
    /\ probe.cut = kcut_past
    /\ probe.cut_mechanisms = <<{2}, {0, 2}, {0, 3}, {2, 3}, {0, 2, 3}>>

-----------------------------------------------------------------------------
(* The simple path of the distance *)

\* The concepts of a constellation, and those of it that another lacks.
ConceptsOf(C) == {C[i] : i \in DOMAIN C}
Absent(big, small) == ConceptsOf(big) \ ConceptsOf(small)

\* The sum of phi * concept_distance(c, null_concept) over a set of concepts.
RECURSIVE DistanceToNull(_)
DistanceToNull(cs) ==
    IF cs = {} THEN 0
    ELSE LET c == CHOOSE x \in cs : TRUE
         IN c.phi * concept_distance(c, null_concept)
            + DistanceToNull(cs \ {c})

-----------------------------------------------------------------------------
(* The histograms of the EMD path *)

\* C23: on the EMD path the two phi distributions handed to the solver,
\* after the difference of their masses has been assigned to the null
\* concept, have no negative entry and the same total mass.
C23_HistogramsAreBalanced ==
    (probe.op = "distance" /\ probe.path = "emd") =>
        LET d1 == probe.histograms.d1
            d2 == probe.histograms.d2
        IN /\ \A i \in DOMAIN d1 : d1[i] >= 0
           /\ \A i \in DOMAIN d2 : d2[i] >= 0
           /\ SeqSum(d1) = SeqSum(d2)

-----------------------------------------------------------------------------
(* The search for the minimum information partition *)

SearchedMip == probe.op = "find_mip"

\* The first partition of distance 0, or 0 if there is none.
FirstZero(distances) ==
    IF \E k \in DOMAIN distances : distances[k] = Zero
    THEN CHOOSE k \in DOMAIN distances :
            /\ distances[k] = Zero
            /\ \A j \in 1 .. (k - 1) : distances[j] # Zero
    ELSE 0

\* The k-th partition is the first one of least distance.
FirstMinimum(distances, k) ==
    /\ \A j \in DOMAIN distances : ~PhiLess(distances[j], distances[k])
    /\ \A j \in 1 .. (k - 1) : distances[j] # distances[k]

\* C24: find_mip returns phi = 0 with a null analysis for an empty purview;
\* phi = 0 for a cause whose unpartitioned repertoire is all zero; phi = 0
\* with the first partition of distance 0, the enumeration stopping there,
\* when there is one; and otherwise the first enumerated partition of least
\* distance, with phi that distance.
C24_FindMipCases ==
    SearchedMip =>
        LET mip == probe.mip
            d == probe.distances
        IN IF probe.purview = {}
           THEN mip = _null_ria(probe.direction, probe.mechanism, {}, Zero)
           ELSE IF probe.direction = "CAUSE" /\ Total(probe.repertoire) = 0
           THEN mip.phi = Zero
           ELSE IF FirstZero(d) # 0
           THEN /\ mip.phi = Zero
                /\ mip.partition = probe.partitions[FirstZero(d)]
                /\ probe.evaluated = FirstZero(d)
           ELSE \E k \in DOMAIN d :
                   /\ FirstMinimum(d, k)
                   /\ mip.partition = probe.partitions[k]
                   /\ mip.phi = d[k]
                   /\ probe.evaluated = Len(d)

\* C28: for a non-empty purview find_mip returns a finite phi >= 0, never
\* the placeholder float("inf") the search starts from, also when no
\* partition is enumerated.
C28_PhiIsFinite ==
    (SearchedMip /\ probe.purview # {}) =>
        /\ probe.mip.phi # Infinity
        /\ probe.mip.phi[2] > 0
        /\ probe.mip.phi[1] >= 0

-----------------------------------------------------------------------------
(* The search for the maximally irreducible cause or effect *)

\* C25: find_mice returns the analysis find_mip gives for a potential
\* purview, of the greatest phi among the potential purviews and, among
\* those of that phi, of the smallest purview; without potential purviews
\* it returns a null analysis of empty purview and phi = 0, without ties.
C25_MaxMiceIsTheGreatest ==
    probe.op = "find_mice" =>
        LET max_mice == probe.max_mice
            all_mips == probe.all_mips
        IN IF probe.purviews = {}
           THEN /\ max_mice.ria = _null_ria(probe.direction, probe.mechanism,
                                            {}, Zero)
                /\ max_mice.ria.purview = {}
                /\ max_mice.ties = <<>>
           ELSE /\ max_mice.ria.purview \in probe.purviews
                /\ max_mice.ria
                      = find_mip(probe.sub, probe.direction, probe.mechanism,
                                 max_mice.ria.purview).mip
                /\ {all_mips[k].purview : k \in DOMAIN all_mips}
                      = probe.purviews
                /\ \A k \in DOMAIN all_mips :
                      /\ ~PhiLess(max_mice.ria.phi, all_mips[k].phi)
                      /\ all_mips[k].phi = max_mice.ria.phi =>
                            Cardinality(max_mice.ria.purview)
                               <= Cardinality(all_mips[k].purview)

\* Purviews of different sizes are tied at the greatest phi, which is not 0.
C25_Witness ==
    /\ probe.op = "find_mice"
    /\ PhiLess(Zero, probe.max_mice.ria.phi)
    /\ \E k \in DOMAIN probe.all_mips :
          /\ probe.all_mips[k].phi = probe.max_mice.ria.phi
          /\ Cardinality(probe.all_mips[k].purview)
                > Cardinality(probe.max_mice.ria.purview)
    /\ \E k \in DOMAIN probe.all_mips :
          PhiLess(probe.all_mips[k].phi, probe.max_mice.ria.phi)

-----------------------------------------------------------------------------
(* The pre-checks of concept() *)

AskedConcept == probe.op = "concept"

\* A node of the mechanism has no input from a node of the subsystem, or
\* no output to one.
HasIdleNode(E, S, M) ==
    \E n \in M :
        \/ ~\E a \in S : <<a, n>> \in E
        \/ ~\E b \in S : <<n, b>> \in E

\* concept() has returned without touching a cache or computing anything.
ReturnedEarly ==
    /\ AskedConcept
    /\ probe.trace = <<>>
    /\ probe.touched = {}
    /\ probe.db = probe.db0
    /\ probe.memo = <<>>

\* C26: concept() returns no concept before any cache lookup and any
\* computation exactly when the mechanism is empty or one of its nodes has
\* no input from the subsystem or no output to it, which is when the test
\* "all mechanism nodes connect to any subsystem node and any subsystem
\* node connects to all mechanism nodes" fails.
C26_EarlyReturnIffIdleNode ==
    AskedConcept =>
        LET idle == probe.mechanism = {}
                    \/ HasIdleNode(probe.cm, probe.subsystem, probe.mechanism)
        IN /\ ReturnedEarly <=> idle
           /\ idle => probe.value = None
           /\ ~idle => probe.trace # <<>> /\ probe.trace[1].op = "db.get"
           /\ idle <=> ~(/\ probe.mechanism # {}
                         /\ _all_connect_to_any(
                                subadjacency(probe.cm, probe.subsystem),
                                probe.mechanism, probe.subsystem)
                         /\ _any_connect_to_all(
                                subadjacency(probe.cm, probe.subsystem),
                                probe.subsystem, probe.mechanism))

\* A mechanism with a node that has no input from the subsystem gets no
\* concept though the persistent cache holds one under its fingerprint.
C26_Witness ==
    /\ ReturnedEarly
    /\ probe.mechanism # {}
    /\ probe.db0 # <<>>
    /\ \E n \in probe.mechanism :
          /\ ~\E a \in probe.subsystem : <<a, n>> \in probe.cm
          /\ \E b \in probe.subsystem : <<n, b>> \in probe.cm
    /\ probe.value = None

-----------------------------------------------------------------------------
(* The bipartitions of a list *)

\* The part holds its elements in the order the list has them.
KeepsOrder(part, a) == part = SelectSeq(a, LAMBDA x : x \in Range(part))

\* C27: for a list a of n >= 1 different elements bipartition(a) yields
\* 2^(n-1) pairs; the parts of a pair share no element, hold every element
\* of a between them and keep the order of a; the first pair is ([], a);
\* and no two pairs have the same two parts, in either order.
C27_BipartitionsOnceEach ==
    probe.op = "bipartition" =>
        LET a == probe.a
            pairs == probe.pairs
        IN /\ Len(pairs) = 2 ^ (Len(a) - 1)
           /\ pairs[1] = <<(<<>>), a>>
           /\ \A k \in DOMAIN pairs :
                 /\ Range(pairs[k][1]) \cap Range(pairs[k][2]) = {}
                 /\ Range(pairs[k][1]) \cup Range(pairs[k][2]) = Range(a)
                 /\ Len(pairs[k][1]) + Len(pairs[k][2]) = Len(a)
                 /\ KeepsOrder(pairs[k][1], a)
                 /\ KeepsOrder(pairs[k][2], a)
           /\ \A j, k \in DOMAIN pairs :
                 j # k => {Range(pairs[j][1]), Range(pairs[j][2])}
                             # {Range(pairs[k][1]), Range(pairs[k][2])}

\* A list out of order, with a pair whose first part skips an element.
C27_Witness ==
    /\ probe.op = "bipartition"
    /\ Len(probe.a) = MaxLen
    /\ probe.a[1] > probe.a[2]
    /\ \E k \in DOMAIN probe.pairs :
          probe.pairs[k][1] = <<probe.a[1], probe.a[3]>>

-----------------------------------------------------------------------------
(* The memo of _big_mip *)

\* C29: the BigMip big_mip(s) returns has s as its subsystem; an entry the
\* memo holds for one subsystem is not returned for another, also when the
\* two have the same hash.
C29_MemoReturnsOwnSubsystem ==
    probe.op = "big_mip" =>
        /\ probe.first.subsystem = probe.s1
        /\ probe.second.subsystem = probe.s2

-----------------------------------------------------------------------------
(* Single nodes without a self-loop *)

\* C30: for a subsystem of one node that has no connection to itself
\* big_mip returns phi = 0, whether SINGLE_NODES_WITH_SELFLOOPS_HAVE_PHI is
\* on or off.
C30_NoSelfLoopNoPhi ==
    (/\ Returned("big_mip")
     /\ Cardinality(call.subsystem) = 1
     /\ \A n \in call.subsystem : <<n, n>> \notin cm)
    => ret.phi = 0

====
